---- MODULE Spec2Model ----
(***************************************************************************)
(* Verification model of the rapid routing core: the middleware pipeline,  *)
(* the asset and markup caches, the server request dispatcher and the      *)
(* client navigation engine (MicroRouter).                                 *)
(*                                                                         *)
(* Conventions                                                             *)
(*   - a JavaScript `string | null` is a sequence of length 0 (null) or 1  *)
(*     (the string); the empty string "" is the one-element sequence <<"">>*)
(*   - a path is a sequence of one-character strings, so that the          *)
(*     character-level tests of the code (===, startsWith) are computed    *)
(*   - a Response is a record; an opaque response modifier f is kept       *)
(*     symbolically: f(r) is r with f appended to r.mods                   *)
(***************************************************************************)
EXTENDS Integers, Sequences, FiniteSets, TLC

VARIABLES
    mw,          \* composeMiddleware: the state of one call
    am,          \* asset manager: one resolution of a bundle
    routeCache,  \* RapidServer.routeCache
    assetCache,  \* RapidServer.assetCache
    configured,  \* the Routes instance last passed to configureFromRoutes
    middlewareConfig, \* RapidServer.middlewareConfig
    inflight,    \* handleRequest calls suspended at `await routeRequest`
    router,      \* MicroRouter.state
    navs,        \* navigateWithServer calls suspended at `await fetch`
    browser,     \* window.history / window.location / render target
    tables,      \* the Routes instances being declared
    fn           \* one call of a pure function: its arguments and result

vars == <<mw, am, routeCache, assetCache, configured, middlewareConfig,
          inflight, router, navs, browser, tables, fn>>

mwVars     == <<mw>>
amVars     == <<am>>
serverVars == <<routeCache, assetCache, configured, middlewareConfig,
               inflight>>
clientVars == <<router, navs, browser>>
routesVars == <<tables>>
fnVars     == <<fn>>

----------------------------------------------------------------------------
(* Bounds *)

MaxMw == 3          \* longest middleware list explored
MaxInflight == 2    \* handleRequest calls in flight at once
MaxNavigations == 2 \* navigations started that can still commit or did
MaxSegments == 3    \* segments declared over the two Routes instances
MaxLayouts == 2     \* longest layout list handed to calculatePreservedLayouts
MaxPathLen == 3     \* tokens in a string handed to joinPaths

----------------------------------------------------------------------------
(* Values *)

Null == <<>>
Str(s) == <<s>>
\* JavaScript truthiness of a `string | null`: null and "" are falsy
Truthy(v) == v # Null /\ v[1] # ""

\* new Response(body, {status, headers})
Resp(status, body, hdrs) ==
    [status |-> status, body |-> body, hdrs |-> hdrs, mods |-> <<>>]

\* MiddlewareResult = Response | ResponseModifier | null
MwNull == [kind |-> "null"]
MwFn(ids) == [kind |-> "fn", chain |-> ids]
MwResp(r) == [kind |-> "resp", resp |-> r]

\* calling an opaque modifier f on a response
CallModifier(f, r) == [r EXCEPT !.mods = Append(@, f)]

Reject401 == Resp(401, "Unauthorized", {"WWW-Authenticate"})
Reject429 == Resp(429, "Too Many Requests", {"Retry-After"})

\* what a middleware can return for a request
MwOutcomes == {MwNull, MwFn(<<"f">>), MwFn(<<"g">>),
               MwResp(Reject401), MwResp(Reject429)}

----------------------------------------------------------------------------
(* compose-middleware.ts *)

RECURSIVE ApplyModifiers(_, _)
\* the closure returned by composeMiddleware: for (const modifier of
\* responseModifiers) currentResponse = await modifier(currentResponse)
ApplyModifiers(chain, r) ==
    IF chain = <<>> THEN r
    ELSE ApplyModifiers(Tail(chain), CallModifier(Head(chain), r))

\* applying a MiddlewareResult of kind "fn" to a response
ApplyFn(m, r) == ApplyModifiers(m.chain, r)

\* the state of a composeMiddleware call before its first iteration
MwStart(list) ==
    [list |-> list, i |-> 1, mods |-> <<>>, invoked |-> <<>>,
     done |-> FALSE, result |-> MwNull]

MwStepReversed(st) ==
    IF st.i > Len(st.list)
    THEN [st EXCEPT !.done = TRUE,
                    !.result = IF Len(st.mods) > 0 THEN MwFn(st.mods)
                               ELSE MwNull]
    ELSE LET result == st.list[st.i]
             called == [st EXCEPT !.invoked = Append(@, st.i), !.i = @ + 1]
         IN  IF result.kind = "resp"
             THEN [called EXCEPT !.done = TRUE, !.result = result]
             ELSE IF result.kind = "fn"
             THEN [called EXCEPT !.mods = result.chain \o @]
             ELSE called

MwStepNoReturn(st) ==
    IF st.i > Len(st.list)
    THEN [st EXCEPT !.done = TRUE,
                    !.result = IF st.result.kind = "resp" THEN st.result
                               ELSE IF Len(st.mods) > 0 THEN MwFn(st.mods)
                               ELSE MwNull]
    ELSE LET result == st.list[st.i]
             called == [st EXCEPT !.invoked = Append(@, st.i), !.i = @ + 1]
         IN  IF result.kind = "resp" /\ st.result.kind # "resp"
             THEN [called EXCEPT !.result = result]
             ELSE IF result.kind = "fn"
             THEN [called EXCEPT !.mods = @ \o result.chain]
             ELSE called

\* one iteration of the for-of loop of composeMiddleware, or, after the
\* last middleware, the code that follows the loop
MwStep(st) ==
    IF st.i > Len(st.list)
    THEN [st EXCEPT !.done = TRUE,
                    !.result = IF Len(st.mods) > 0 THEN MwFn(st.mods)
                               ELSE MwNull]
    ELSE LET result == st.list[st.i]
             called == [st EXCEPT !.invoked = Append(@, st.i), !.i = @ + 1]
         IN  IF result.kind = "resp"
             THEN [called EXCEPT !.done = TRUE, !.result = result]
             ELSE IF result.kind = "fn"
             THEN [called EXCEPT !.mods = @ \o result.chain]
             ELSE called

RECURSIVE MwRun(_)
MwRun(st) == IF st.done THEN st ELSE MwRun(MwStep(st))

\* composeMiddleware(middlewares, req, url), the middlewares given by what
\* each returns for (req, url)
composeMiddleware(list) == MwRun(MwStart(list))

MwLists == UNION {[1..n -> MwOutcomes] : n \in 0..MaxMw}

MwInit == mw \in {MwStart(l) : l \in MwLists}

\* the loop advances by one middleware call
MwInvoke ==
    /\ ~mw.done
    /\ mw.i <= Len(mw.list)
    /\ mw' = MwStep(mw)
    /\ UNCHANGED <<am, serverVars, clientVars, routesVars, fnVars>>

\* the loop is over: the composed modifier or null is returned
MwReturn ==
    /\ ~mw.done
    /\ mw.i > Len(mw.list)
    /\ mw' = MwStep(mw)
    /\ UNCHANGED <<am, serverVars, clientVars, routesVars, fnVars>>

----------------------------------------------------------------------------
(* modules/asset-manager.ts *)

\* createAssetCache()
createAssetCache == [clientBundle |-> Null, cssBundle |-> Null]

\* what getPrebuilt(file) resolves to: null, or the text of the file
PrebuiltVals == {Null, Str(""), Str("p")}

\* what a compiler call does: throw, or return the compiled text
Threw == [ok |-> FALSE, v |-> ""]
Compiled(s) == [ok |-> TRUE, v |-> s]
CompileOutcomes == {Threw, Compiled(""), Compiled("c")}

\* the collaborators of one resolution: the prebuilt files, the client
\* bundler, config.cssCompiler (hasCss = FALSE: cssCompiler is null)
Envs == [prebuiltJs : PrebuiltVals, prebuiltCss : PrebuiltVals,
         jsCompile : CompileOutcomes, cssCompile : CompileOutcomes,
         hasCss : BOOLEAN]

\* the result of a resolution; threw = TRUE: the promise rejected and there
\* is no bundle and no updated cache (updatedCache then repeats the input)
AssetResult(threw, error, bundle, updatedCache, trace) ==
    [threw |-> threw, error |-> error, bundle |-> bundle,
     updatedCache |-> updatedCache, trace |-> trace]

\* getClientBundle(cache, config)
getClientBundle(cache, env) ==
    IF Truthy(cache.clientBundle)
    THEN AssetResult(FALSE, "", cache.clientBundle, cache, <<"cache">>)
    ELSE IF Truthy(env.prebuiltJs)
    THEN AssetResult(FALSE, "", env.prebuiltJs,
                     [cache EXCEPT !.clientBundle = env.prebuiltJs],
                     <<"cache", "prebuilt">>)
    ELSE IF ~env.jsCompile.ok
    THEN AssetResult(TRUE, "Client bundling failed", Null, cache,
                     <<"cache", "prebuilt", "compiler">>)
    ELSE AssetResult(FALSE, "", Str(env.jsCompile.v),
                     [cache EXCEPT !.clientBundle = Str(env.jsCompile.v)],
                     <<"cache", "prebuilt", "compiler">>)


\* getCSSBundle that answers with an empty bundle when there is no compiler
getCSSBundleEmptyWithoutCompiler(cache, env) ==
    IF Truthy(cache.cssBundle)
    THEN AssetResult(FALSE, "", cache.cssBundle, cache, <<"cache">>)
    ELSE IF Truthy(env.prebuiltCss)
    THEN AssetResult(FALSE, "", env.prebuiltCss,
                     [cache EXCEPT !.cssBundle = env.prebuiltCss],
                     <<"cache", "prebuilt">>)
    ELSE IF ~env.hasCss
    THEN AssetResult(FALSE, "", Str(""), [cache EXCEPT !.cssBundle = Str("")],
                     <<"cache", "prebuilt">>)
    ELSE IF ~env.cssCompile.ok
    THEN AssetResult(TRUE, "CSS compilation failed", Null, cache,
                     <<"cache", "prebuilt", "compiler">>)
    ELSE AssetResult(FALSE, "", Str(env.cssCompile.v),
                     [cache EXCEPT !.cssBundle = Str(env.cssCompile.v)],
                     <<"cache", "prebuilt", "compiler">>)

\* getCSSBundle(cache, config)
getCSSBundle(cache, env) ==
    IF Truthy(cache.cssBundle)
    THEN AssetResult(FALSE, "", cache.cssBundle, cache, <<"cache">>)
    ELSE IF Truthy(env.prebuiltCss)
    THEN AssetResult(FALSE, "", env.prebuiltCss,
                     [cache EXCEPT !.cssBundle = env.prebuiltCss],
                     <<"cache", "prebuilt">>)
    ELSE IF ~env.hasCss
    THEN AssetResult(TRUE, "No CSS compiler provided to asset manager",
                     Null, cache, <<"cache", "prebuilt">>)
    ELSE IF ~env.cssCompile.ok
    THEN AssetResult(TRUE, "CSS compilation failed", Null, cache,
                     <<"cache", "prebuilt", "compiler">>)
    ELSE AssetResult(FALSE, "", Str(env.cssCompile.v),
                     [cache EXCEPT !.cssBundle = Str(env.cssCompile.v)],
                     <<"cache", "prebuilt", "compiler">>)

\* createAssetResponse(content, contentType, isDev)
createAssetResponse(content, contentType) ==
    Resp(200, <<"asset", content>>,
         {"Content-Type", "Cache-Control", "X-Frame-Options",
          "X-Content-Type-Options", "Referrer-Policy"})

\* createAssetErrorResponse(contentType, fallbackContent)
createAssetErrorResponse(contentType, fallbackContent) ==
    Resp(500, <<"asset", Str(fallbackContent)>>,
         {"Content-Type", "X-Frame-Options", "X-Content-Type-Options",
          "Referrer-Policy"})

\* no resolution has been made with the current struct
NoCall == [key |-> "none", before |-> createAssetCache,
           res |-> AssetResult(FALSE, "", Null, createAssetCache, <<>>)]

AmInit ==
    am \in {[cache |-> createAssetCache, env |-> e, call |-> NoCall,
             prev |-> NoCall] : e \in Envs}

\* const r = await getClientBundle(cache, config)
AmGetClientBundle ==
    /\ am.call.key = "none"
    /\ am' = [am EXCEPT !.call = [key |-> "clientBundle", before |-> am.cache,
                                  res |-> getClientBundle(am.cache, am.env)]]
    /\ UNCHANGED <<mw, serverVars, clientVars, routesVars, fnVars>>

\* const r = await getCSSBundle(cache, config)
AmGetCSSBundle ==
    /\ am.call.key = "none"
    /\ am' = [am EXCEPT !.call = [key |-> "cssBundle", before |-> am.cache,
                                  res |-> getCSSBundle(am.cache, am.env)]]
    /\ UNCHANGED <<mw, serverVars, clientVars, routesVars, fnVars>>

\* the caller installs the struct it was handed (a rejected call hands none)
\* and the files and compilers may have changed by the next call; prev is
\* the call whose struct was installed last
AmInstall ==
    /\ am.call.key # "none"
    /\ \E e \in Envs :
         am' = [cache |-> IF am.call.res.threw THEN am.cache
                          ELSE am.call.res.updatedCache,
                env |-> e, call |-> NoCall,
                prev |-> IF am.call.res.threw THEN NoCall ELSE am.call]
    /\ UNCHANGED <<mw, serverVars, clientVars, routesVars, fnVars>>

----------------------------------------------------------------------------
(* Paths, requests and route tables *)

StylesPath == <<"/", "s", "t", "y", "l", "e", "s", ".", "c", "s", "s">>
ClientJsPath == <<"/", "c", "l", "i", "e", "n", "t", ".", "j", "s">>
PathP == <<"/", "p">>
PathQ == <<"/", "q">>
PathR == <<"/", "r">>
PathX == <<"/", "x">>
PathX1 == <<"/", "x", "/", "1">>
PathXY == <<"/", "x", "y">>

\* s.startsWith(prefix)
StartsWith(s, prefix) ==
    /\ Len(prefix) <= Len(s)
    /\ SubSeq(s, 1, Len(prefix)) = prefix

\* the default of RapidServerConfig.maxRequestSize (1MB)
DefaultMaxRequestSize == 1048576

NoContentLength == -1

\* middleware functions of the application, by name, and what each
\* returns for a request
MwOutcome(name, req) ==
    CASE name = "auth" -> IF req.authed THEN MwNull ELSE MwResp(Reject401)
      [] name = "hdrF" -> MwFn(<<"f">>)
      [] name = "hdrG" -> MwFn(<<"g">>)
      [] OTHER -> MwNull

\* route.middleware: absent, one function, or a list of functions
NoMw == [kind |-> "absent", fns |-> <<>>]
OneMw(name) == [kind |-> "single", fns |-> <<name>>]
ListMw(names) == [kind |-> "list", fns |-> names]

PageRoute(path, title, middleware, rateLimit) ==
    [path |-> path, title |-> title, middleware |-> middleware,
     rateLimit |-> rateLimit]

ApiRoute(path, handler, middleware, rateLimit) ==
    [path |-> path, handler |-> handler, middleware |-> middleware,
     rateLimit |-> rateLimit]

\* three Routes instances, given by what getServerRoute() and getApiRoutes()
\* return for them
RoutesOf(id) ==
    IF id = "R1"
    THEN [pages |-> <<PageRoute(PathP, "P1", OneMw("auth"), FALSE),
                      PageRoute(PathQ, "Q1",
                                ListMw(<<"hdrF", "auth", "hdrG">>), TRUE)>>,
          apis |-> <<ApiRoute(PathX, "notAResponse", NoMw, TRUE),
                     ApiRoute(PathX, "json", OneMw("auth"), TRUE)>>]
    ELSE IF id = "R2"
    THEN [pages |-> <<PageRoute(PathP, "P2", OneMw("hdrF"), TRUE),
                      PageRoute(PathR, "R2", NoMw, FALSE)>>,
          apis |-> <<ApiRoute(PathX, "notAResponse", OneMw("hdrG"), FALSE)>>]
    ELSE [pages |-> <<PageRoute(PathXY, "XY3", NoMw, FALSE)>>,
          apis |-> <<ApiRoute(PathX, "notAResponse", NoMw, FALSE),
                     ApiRoute(PathX1, "json1", OneMw("auth"), TRUE),
                     ApiRoute(PathX, "json", OneMw("hdrF"), FALSE)>>]

RouteSets == {"R1", "R2", "R3"}

\* what an API handler returns: a Response, or something that is not one
HandlerResult(name, req) ==
    IF name \in {"json", "json1"}
    THEN MwResp(Resp(200, <<name, req.path>>, {"Content-Type"}))
    ELSE MwNull

\* a request, with the decisions of the collaborators it meets:
\*   globalDeny, routeDeny  the rate limiters answer 429
\*   suspicious             pathname + search matches a suspicious pattern
\*   env                    prebuilt files and compilers
Request(path, authed, nav, contentLength, globalDeny, suspicious, routeDeny, env) ==
    [path |-> path, authed |-> authed, nav |-> nav,
     contentLength |-> contentLength, globalDeny |-> globalDeny,
     suspicious |-> suspicious, routeDeny |-> routeDeny, env |-> env]

----------------------------------------------------------------------------
(* modules/route-manager.ts *)

EmptyMap == [k \in {} |-> k]
MapSet(m, k, v) == [x \in (DOMAIN m) \cup {k} |-> IF x = k THEN v ELSE m[x]]

\* createRouteCache()
createRouteCache ==
    [serverRoutes |-> EmptyMap, apiRoutes |-> <<>>, htmlCache |-> EmptyMap]

RECURSIVE SetRoutes(_, _)
\* for (const route of pageServerRoutes) serverRoutes.set(route.path, route)
SetRoutes(m, routes) ==
    IF routes = <<>> THEN m
    ELSE SetRoutes(MapSet(m, Head(routes).path, Head(routes)), Tail(routes))

configureRoutesKeepHtml(routes, old) ==
    [serverRoutes |-> SetRoutes(EmptyMap, routes.pages),
     apiRoutes |-> routes.apis,
     htmlCache |-> old.htmlCache]

\* configureRoutes(routes), on the server (typeof window === "undefined");
\* `old` is the struct being replaced, which the code does not read
configureRoutes(routes, old) ==
    [serverRoutes |-> SetRoutes(EmptyMap, routes.pages),
     apiRoutes |-> routes.apis,
     htmlCache |-> EmptyMap]

\* generateHTML(serverRoute, path): a non-empty document made of the
\* route's title and the path
generateHTML(serverRoute, path) ==
    [title |-> serverRoute.title, path |-> path]

\* getHTML(cache, path)
getHTML(cache, path) ==
    IF path \in DOMAIN cache.htmlCache
    THEN [html |-> <<cache.htmlCache[path]>>, updatedCache |-> cache]
    ELSE IF path \notin DOMAIN cache.serverRoutes
    THEN [html |-> Null, updatedCache |-> cache]
    ELSE LET html == generateHTML(cache.serverRoutes[path], path)
         IN  [html |-> <<html>>,
              updatedCache |->
                  [cache EXCEPT !.htmlCache = MapSet(@, path, html)]]

\* the match without the "/" after the route's path
ApiPathMatchesPrefix(pathname, routePath) == StartsWith(pathname, routePath)

\* pathname === route.path || pathname.startsWith(route.path + "/")
ApiPathMatches(pathname, routePath) ==
    pathname = routePath \/ StartsWith(pathname, Append(routePath, "/"))

\* findApiRoute(cache, pathname): the index of the first matching route,
\* 0 for null
findApiRoute(cache, pathname) ==
    LET hits == {i \in 1..Len(cache.apiRoutes) :
                    ApiPathMatches(pathname, cache.apiRoutes[i].path)}
    IN  IF hits = {} THEN 0
        ELSE CHOOSE i \in hits : \A j \in hits : i <= j

\* isApiRoute(cache, pathname)
isApiRoute(cache, pathname) == findApiRoute(cache, pathname) # 0

----------------------------------------------------------------------------
(* handlers and modules/request-router.ts *)

\* one thing a request made the server do, for the order of evaluation
Ev(tier, op) == [tier |-> tier, op |-> op]

\* the 429 built by createBunResponse for a rate limiter that denies
RateLimited ==
    Resp(429, "Too Many Requests",
         {"Content-Type", "X-Frame-Options", "X-Content-Type-Options",
          "Referrer-Policy"})

PayloadTooLarge ==
    Resp(413, "Payload Too Large",
         {"Content-Type", "X-Frame-Options", "X-Content-Type-Options",
          "Referrer-Policy"})

Suspicious ==
    Resp(403, "Forbidden",
         {"Content-Type", "X-Frame-Options", "X-Content-Type-Options",
          "Referrer-Policy"})

\* new Response("Not Found") without the status
NotFoundDefaultStatus == Resp(200, "Not Found", {})

NotFound == Resp(404, "Not Found", {})

\* a `Response | null` with the events that computing it caused
Out(resp, trace) == [resp |-> resp, trace |-> trace]

\* applyGlobalMiddleware(req, url, config)
applyGlobalMiddleware(req, config) ==
    IF ~config.enableRateLimit THEN Out(Null, <<>>)
    ELSE IF req.globalDeny
    THEN Out(<<RateLimited>>, <<Ev("global", "rateLimit")>>)
    ELSE IF req.contentLength # NoContentLength
            /\ req.contentLength > config.maxRequestSize
    THEN Out(<<PayloadTooLarge>>,
             <<Ev("global", "rateLimit"), Ev("global", "size")>>)
    ELSE IF req.suspicious
    THEN Out(<<Suspicious>>,
             <<Ev("global", "rateLimit"), Ev("global", "size"),
               Ev("global", "suspicious")>>)
    ELSE Out(Null, <<Ev("global", "rateLimit"), Ev("global", "size"),
                     Ev("global", "suspicious")>>)

AssetTrace(trace) == [i \in 1..Len(trace) |-> Ev("asset", trace[i])]

\* handleCSSRequest whose catch branch installs the fallback text
handleCSSRequestPoisoned(cache, env) ==
    LET r == getCSSBundle(cache, env)
    IN  IF r.threw
        THEN [response |-> createAssetErrorResponse(
                               "text/css", "/* CSS compilation failed */"),
              updatedCache |->
                  [cache EXCEPT !.cssBundle =
                                    Str("/* CSS compilation failed */")],
              trace |-> AssetTrace(r.trace)]
        ELSE [response |-> createAssetResponse(r.bundle, "text/css"),
              updatedCache |-> r.updatedCache,
              trace |-> AssetTrace(r.trace)]

\* handleCSSRequest(assetCache, assetConfig)
handleCSSRequest(cache, env) ==
    LET r == getCSSBundle(cache, env)
    IN  IF r.threw
        THEN [response |-> createAssetErrorResponse(
                               "text/css", "/* CSS compilation failed */"),
              updatedCache |-> cache, trace |-> AssetTrace(r.trace)]
        ELSE [response |-> createAssetResponse(r.bundle, "text/css"),
              updatedCache |-> r.updatedCache,
              trace |-> AssetTrace(r.trace)]

\* handleClientJSRequest(assetCache, assetConfig)
handleClientJSRequest(cache, env) ==
    LET r == getClientBundle(cache, env)
    IN  IF r.threw
        THEN [response |-> createAssetErrorResponse(
                               "application/javascript",
                               "// Client bundling error"),
              updatedCache |-> cache, trace |-> AssetTrace(r.trace)]
        ELSE [response |-> createAssetResponse(r.bundle,
                                               "application/javascript"),
              updatedCache |-> r.updatedCache,
              trace |-> AssetTrace(r.trace)]

RECURSIVE ApiMiddlewares(_, _, _)
\* the middleware loop of handleAPIRequest, from the k-th middleware on
ApiMiddlewares(fns, k, req) ==
    IF k > Len(fns) THEN Out(Null, <<>>)
    ELSE LET middlewareResult == MwOutcome(fns[k], req)
         IN  IF middlewareResult.kind = "resp"
             THEN Out(<<middlewareResult.resp>>, <<Ev("api", "middleware")>>)
             ELSE LET rest == ApiMiddlewares(fns, k + 1, req)
                  IN  Out(rest.resp, <<Ev("api", "middleware")>> \o rest.trace)

RECURSIVE ApiScan(_, _, _)
\* the route loop of handleAPIRequest, from the i-th route on
ApiScan(apiRoutes, i, req) ==
    IF i > Len(apiRoutes) THEN Out(Null, <<>>)
    ELSE IF ~ApiPathMatches(req.path, apiRoutes[i].path)
    THEN ApiScan(apiRoutes, i + 1, req)
    ELSE LET apiRoute == apiRoutes[i]
             m == ApiMiddlewares(apiRoute.middleware.fns, 1, req)
         IN  IF m.resp # Null THEN m
             ELSE LET handlerResult == HandlerResult(apiRoute.handler, req)
                      t == m.trace \o <<Ev("api", "handler")>>
                  IN  IF handlerResult.kind = "resp"
                      THEN Out(<<handlerResult.resp>>, t)
                      ELSE LET rest == ApiScan(apiRoutes, i + 1, req)
                           IN  Out(rest.resp, t \o rest.trace)

\* handleAPIRequest(url, req, apiRoutes)
handleAPIRequest(req, apiRoutes) == ApiScan(apiRoutes, 1, req)

\* handleAPIRouteRequest(req, url, routeCache, middlewareConfig)
handleAPIRouteRequest(req, cache, config) ==
    LET i == findApiRoute(cache, req.path)
    IN  IF i = 0 THEN Out(Null, <<Ev("api", "find")>>)
        ELSE IF config.enableRateLimit /\ cache.apiRoutes[i].rateLimit
        THEN IF req.routeDeny
             THEN Out(<<RateLimited>>,
                      <<Ev("api", "find"), Ev("api", "rateLimit")>>)
             ELSE LET r == handleAPIRequest(req, cache.apiRoutes)
                  IN  Out(r.resp,
                          <<Ev("api", "find"), Ev("api", "rateLimit")>>
                              \o r.trace)
        ELSE LET r == handleAPIRequest(req, cache.apiRoutes)
             IN  Out(r.resp, <<Ev("api", "find")>> \o r.trace)

\* the result of the route's middleware in handlePageRequest: a list goes
\* through composeMiddleware, a single function is called itself
PageMiddlewareResult(pageRoute, req) ==
    IF pageRoute.middleware.kind = "list"
    THEN composeMiddleware([k \in 1..Len(pageRoute.middleware.fns) |->
                               MwOutcome(pageRoute.middleware.fns[k], req)])
             .result
    ELSE MwOutcome(pageRoute.middleware.fns[1], req)

handlePageRequestNavigationServed(req, pageRoute, html) ==
    LET hasMw == pageRoute.middleware.kind # "absent"
        middlewareResult == IF hasMw THEN PageMiddlewareResult(pageRoute, req)
                            ELSE MwNull
        mwTrace == IF hasMw THEN <<Ev("page", "middleware")>> ELSE <<>>
        page == Resp(200, <<"html", html>>,
                     {"Content-Type"} \cup
                     (IF req.nav THEN {"X-Navigation-Success"} ELSE {}))
    IN  IF middlewareResult.kind = "resp" /\ ~req.nav
        THEN Out(<<middlewareResult.resp>>, mwTrace)
        ELSE IF middlewareResult.kind = "fn"
        THEN Out(<<ApplyFn(middlewareResult, page)>>,
                 mwTrace \o <<Ev("page", "markup")>>)
        ELSE Out(<<page>>, mwTrace \o <<Ev("page", "markup")>>)

\* handlePageRequest(url, req, pageRoute, getHTML) for a route that exists
\* and a getHTML callback that returns `html`
handlePageRequest(req, pageRoute, html) ==
    LET hasMw == pageRoute.middleware.kind # "absent"
        middlewareResult == IF hasMw THEN PageMiddlewareResult(pageRoute, req)
                            ELSE MwNull
        mwTrace == IF hasMw THEN <<Ev("page", "middleware")>> ELSE <<>>
        page == Resp(200, <<"html", html>>,
                     {"Content-Type"} \cup
                     (IF req.nav THEN {"X-Navigation-Success"} ELSE {}))
    IN  IF middlewareResult.kind = "resp"
        THEN Out(<<middlewareResult.resp>>, mwTrace)
        ELSE IF middlewareResult.kind = "fn"
        THEN Out(<<ApplyFn(middlewareResult, page)>>,
                 mwTrace \o <<Ev("page", "markup")>>)
        ELSE Out(<<page>>, mwTrace \o <<Ev("page", "markup")>>)

\* handlePageRouteRequest(req, url, routeCache, middlewareConfig)
handlePageRouteRequest(req, cache, config) ==
    LET known == req.path \in DOMAIN cache.serverRoutes
        limited == /\ config.enableRateLimit
                   /\ known
                   /\ cache.serverRoutes[req.path].rateLimit
        t0 == <<Ev("page", "lookup")>>
              \o (IF limited THEN <<Ev("page", "rateLimit")>> ELSE <<>>)
    IN  IF limited /\ req.routeDeny
        THEN [response |-> RateLimited, updatedCache |-> cache, trace |-> t0]
        ELSE LET h == getHTML(cache, req.path)
                 t1 == t0 \o <<Ev("page", "getHTML")>>
             IN  IF h.html = Null
                 THEN [response |-> NotFound, updatedCache |-> cache,
                       trace |-> t1]
                 ELSE LET r == handlePageRequest(
                                   req, cache.serverRoutes[req.path],
                                   h.html[1])
                      IN  [response |-> r.resp[1],
                           updatedCache |-> h.updatedCache,
                           trace |-> t1 \o r.trace]

\* RequestResult, with the events of the request and the tier whose return
\* statement produced the result
Result(response, updatedAssetCache, updatedRouteCache, trace, tier) ==
    [response |-> response, updatedAssetCache |-> updatedAssetCache,
     updatedRouteCache |-> updatedRouteCache, trace |-> trace, tier |-> tier]

routeRequestAssetsFirst(req, cache, assets, config) ==
    LET g == applyGlobalMiddleware(req, config)
    IN  IF req.path = StylesPath
        THEN LET a == handleCSSRequest(assets, req.env)
             IN  Result(a.response, a.updatedCache, cache, a.trace, "asset")
        ELSE IF req.path = ClientJsPath
        THEN LET a == handleClientJSRequest(assets, req.env)
             IN  Result(a.response, a.updatedCache, cache, a.trace, "asset")
        ELSE IF g.resp # Null
        THEN Result(g.resp[1], assets, cache, g.trace, "global")
        ELSE LET api == IF isApiRoute(cache, req.path)
                        THEN handleAPIRouteRequest(req, cache, config)
                        ELSE Out(Null, <<Ev("api", "find")>>)
             IN  IF api.resp # Null
                 THEN Result(api.resp[1], assets, cache,
                             g.trace \o api.trace, "api")
                 ELSE LET p == handlePageRouteRequest(req, cache, config)
                      IN  Result(p.response, assets, p.updatedCache,
                                 g.trace \o api.trace \o p.trace, "page")

\* routeRequest(context)
routeRequest(req, cache, assets, config) ==
    LET g == applyGlobalMiddleware(req, config)
    IN  IF g.resp # Null
        THEN Result(g.resp[1], assets, cache, g.trace, "global")
        ELSE IF req.path = StylesPath
        THEN LET a == handleCSSRequest(assets, req.env)
             IN  Result(a.response, a.updatedCache, cache,
                        g.trace \o a.trace, "asset")
        ELSE IF req.path = ClientJsPath
        THEN LET a == handleClientJSRequest(assets, req.env)
             IN  Result(a.response, a.updatedCache, cache,
                        g.trace \o a.trace, "asset")
        ELSE LET api == IF isApiRoute(cache, req.path)
                        THEN handleAPIRouteRequest(req, cache, config)
                        ELSE Out(Null, <<Ev("api", "find")>>)
             IN  IF api.resp # Null
                 THEN Result(api.resp[1], assets, cache,
                             g.trace \o api.trace, "api")
                 ELSE LET p == handlePageRouteRequest(req, cache, config)
                      IN  Result(p.response, assets, p.updatedCache,
                                 g.trace \o api.trace \o p.trace, "page")

----------------------------------------------------------------------------
(* rapid-server/index.ts: RapidServer *)

DefaultEnv == [prebuiltJs |-> Null, prebuiltCss |-> Null,
               jsCompile |-> Compiled("c"), cssCompile |-> Compiled("c"),
               hasCss |-> TRUE]

\* the collaborators met by a request for /styles.css and for /client.js
CssEnvs == {[DefaultEnv EXCEPT !.prebuiltCss = p, !.cssCompile = c,
                               !.hasCss = h] :
            p \in {Null, Str("p")}, c \in CompileOutcomes, h \in BOOLEAN}
JsEnvs == {[DefaultEnv EXCEPT !.prebuiltJs = p, !.jsCompile = c] :
           p \in {Null, Str("p")}, c \in CompileOutcomes}

\* (globalDeny, contentLength, suspicious) of the requests explored
Gates == {<<FALSE, NoContentLength, FALSE>>,
          <<TRUE, NoContentLength, FALSE>>,
          <<FALSE, DefaultMaxRequestSize + 1, FALSE>>,
          <<FALSE, DefaultMaxRequestSize, TRUE>>,
          <<TRUE, DefaultMaxRequestSize + 1, TRUE>>}

RoutePaths == {PathP, PathQ, PathR, PathX, PathX1, PathXY}

Requests ==
    {Request(path, authed, nav, g[2], g[1], g[3], deny, DefaultEnv) :
        path \in RoutePaths, authed \in BOOLEAN, nav \in BOOLEAN,
        g \in Gates, deny \in BOOLEAN}
    \cup {Request(StylesPath, TRUE, FALSE, g[2], g[1], g[3], FALSE, e) :
            g \in Gates, e \in CssEnvs}
    \cup {Request(ClientJsPath, TRUE, FALSE, g[2], g[1], g[3], FALSE, e) :
            g \in Gates, e \in JsEnvs}

\* the requests explored when calls overlap
OverlapRequests ==
    {Request(PathP, TRUE, FALSE, NoContentLength, FALSE, FALSE, FALSE,
             DefaultEnv),
     Request(StylesPath, TRUE, FALSE, NoContentLength, FALSE, FALSE, FALSE,
             DefaultEnv),
     Request(ClientJsPath, TRUE, FALSE, NoContentLength, FALSE, FALSE, FALSE,
             DefaultEnv)}

NotConfigured == [id |-> "none", prev |-> "none"]

\* new RapidServer(config): empty caches, no routes configured
ServerInit ==
    /\ routeCache = createRouteCache
    /\ assetCache = createAssetCache
    /\ configured = NotConfigured
    /\ middlewareConfig \in [enableRateLimit : BOOLEAN,
                             maxRequestSize : {DefaultMaxRequestSize}]
    /\ inflight = {}

\* configureFromRoutes(routes)
ConfigureFromRoutes(id) ==
    /\ routeCache' = configureRoutes(RoutesOf(id), routeCache)
    /\ configured' = [id |-> id, prev |-> configured.id]
    /\ UNCHANGED <<assetCache, middlewareConfig, inflight>>

\* handleRequest(req) up to `await routeRequest(context)`: the context
\* captures this.routeCache and this.assetCache, and routeRequest computes
\* its result from the context alone
BeginRequest(req) ==
    /\ inflight' = inflight \cup
         {[req |-> req, routeCache |-> routeCache, assetCache |-> assetCache,
           result |-> routeRequest(req, routeCache, assetCache,
                                   middlewareConfig)]}
    /\ UNCHANGED <<routeCache, assetCache, configured, middlewareConfig>>

\* handleRequest(req) after the await: both caches are overwritten with the
\* structs of the result and the response is returned
CompleteRequest(call) ==
    /\ assetCache' = call.result.updatedAssetCache
    /\ routeCache' = call.result.updatedRouteCache
    /\ inflight' = inflight \ {call}
    /\ UNCHANGED <<configured, middlewareConfig>>

\* the headers that applySecurityHeadersToResponse adds on every branch
\* (text/html, application/json, other) when the response lacks them, and
\* the three it always sets
applySecurityHeadersToResponse(response) ==
    [response EXCEPT !.hdrs =
        @ \cup {"X-Frame-Options", "X-Content-Type-Options",
                "Referrer-Policy", "X-DNS-Prefetch-Control",
                "X-Download-Options", "X-Permitted-Cross-Domain-Policies"}]

\* what handleRequest returns for the call: the RapidServer that has a
\* securityConfig passes the routed response through
\* applySecurityHeadersToResponse
SecuredResponse(call) == applySecurityHeadersToResponse(call.result.response)

\* what handleRequest returns for the call: the RapidServer of
\* rapid-server/index.ts returns the routed response itself
PlainResponse(call) == call.result.response

Idle == inflight = {}

\* requests served one at a time, reconfiguration between requests
SeqConfigure ==
    /\ Idle
    /\ \E id \in RouteSets : ConfigureFromRoutes(id)
    /\ UNCHANGED <<mw, am, clientVars, routesVars, fnVars>>

SeqBegin ==
    /\ Idle
    /\ \E req \in Requests : BeginRequest(req)
    /\ UNCHANGED <<mw, am, clientVars, routesVars, fnVars>>

SeqComplete ==
    /\ \E call \in inflight : CompleteRequest(call)
    /\ UNCHANGED <<mw, am, clientVars, routesVars, fnVars>>

\* the route tables explored when calls overlap
OverlapRouteSets == {"R1", "R2"}

\* requests and reconfigurations that overlap
Configure ==
    /\ \E id \in OverlapRouteSets : ConfigureFromRoutes(id)
    /\ UNCHANGED <<mw, am, clientVars, routesVars, fnVars>>

Begin ==
    /\ Cardinality(inflight) < MaxInflight
    /\ \E req \in OverlapRequests : BeginRequest(req)
    /\ UNCHANGED <<mw, am, clientVars, routesVars, fnVars>>

Complete ==
    /\ \E call \in inflight : CompleteRequest(call)
    /\ UNCHANGED <<mw, am, clientVars, routesVars, fnVars>>

----------------------------------------------------------------------------
(* rapid-client/micro-router: router-state, navigation-functions, *)
(* MicroRouter                                                    *)

\* a URL string: origin "" for a string that is only a path ("/a"),
\* otherwise the absolute URL of that path on that origin
Url(origin, path) == [origin |-> origin, path |-> path]
Rel(path) == Url("", path)

\* window.location.origin
CurrentOrigin == "self"

\* ClientRoute
ClientRoute(path, component, layouts) ==
    [path |-> path, component |-> component, layouts |-> layouts]

RouteA == ClientRoute(Rel("/a"), "A", <<"L1">>)
RouteB == ClientRoute(Rel("/b"), "B", <<"L1", "L2">>)
RouteA2 == ClientRoute(Rel("/a"), "A2", <<"L2">>)

\* the route lists handed to configureRoutes
ClientTables == {<<RouteA, RouteB>>, <<RouteA2>>}

\* the paths that navigations are asked for; /c is in no table
NavPaths == {Rel("/a"), Rel("/b"), Rel("/c")}

\* the values of a Location header
Locations == {Rel("/a"), Url("self", "/b"), Url("self", "/login"),
              Url("other", "/a")}

\* what fetch resolves to: status and Location header (null or a string)
Response(status, location) == [status |-> status, location |-> location]
Responses ==
    {Response(200, Null), Response(204, Null), Response(404, Null),
     Response(500, Null), Response(302, Null)}
    \cup {Response(302, <<l>>) : l \in Locations}

\* what the fetch of a navigation resolves to: one response of each class
\* that analyzeNavigationResponse tells apart
FetchResponses == Responses \ {Response(204, Null), Response(500, Null)}

\* createRouterState()
createRouterState ==
    [routes |-> EmptyMap, currentPath |-> Rel(""), currentRoute |-> Null,
     renderCallback |-> "null"]

RECURSIVE SetClientRoutes(_, _)
SetClientRoutes(m, routes) ==
    IF routes = <<>> THEN m
    ELSE SetClientRoutes(MapSet(m, Head(routes).path, Head(routes)),
                         Tail(routes))

\* updateRoutes(state, routes)
updateRoutes(state, routes) ==
    [state EXCEPT !.routes = SetClientRoutes(EmptyMap, routes)]

\* addRoute(state, route)
addRoute(state, route) ==
    [state EXCEPT !.routes = MapSet(@, route.path, route)]


\* removeRoute that also forgets the current route when its path is removed
removeRouteClearsCurrent(state, path) ==
    [state EXCEPT !.routes = [x \in (DOMAIN @) \ {path} |-> @[x]],
                  !.currentRoute = IF state.currentPath = path THEN Null
                                   ELSE @]

\* removeRoute(state, path)
removeRoute(state, path) ==
    [state EXCEPT !.routes = [x \in (DOMAIN @) \ {path} |-> @[x]]]

\* updateCurrentRoute that keeps a current route once there is one
updateCurrentRouteKeepFirst(state, path, route) ==
    IF state.currentRoute # Null THEN state
    ELSE [state EXCEPT !.currentPath = path, !.currentRoute = <<route>>]

\* updateCurrentRoute(state, path, route)
updateCurrentRoute(state, path, route) ==
    [state EXCEPT !.currentPath = path, !.currentRoute = <<route>>]

\* setRenderCallback(state, callback)
setRenderCallback(state, callback) ==
    [state EXCEPT !.renderCallback = callback]

\* getRoute(state, path): null (undefined) or the route
getRoute(state, path) ==
    IF path \in DOMAIN state.routes THEN <<state.routes[path]>> ELSE Null

\* isInternalLink(href, currentOrigin): new URL(href) throws for a string
\* that is only a path, and the catch returns false
isInternalLink(href, currentOrigin) ==
    IF href.origin = "" THEN FALSE ELSE href.origin = currentOrigin

\* location.includes("/login")
IncludesLogin(location) == location.path = "/login"

\* response.ok
Ok(response) == response.status >= 200 /\ response.status <= 299

NavigationResult(success, shouldFallbackToFullPage, redirectTo) ==
    [success |-> success,
     shouldFallbackToFullPage |-> shouldFallbackToFullPage,
     redirectTo |-> redirectTo]

analyzeNavigationResponseAnyStatus(response, currentOrigin) ==
    IF /\ response.status >= 300 /\ response.status < 400
       /\ response.location # Null
    THEN IF \/ IncludesLogin(response.location[1])
            \/ ~isInternalLink(response.location[1], currentOrigin)
         THEN NavigationResult(FALSE, TRUE, response.location)
         ELSE NavigationResult(TRUE, FALSE, response.location)
    ELSE NavigationResult(TRUE, FALSE, Null)

\* analyzeNavigationResponse(response, currentOrigin)
analyzeNavigationResponse(response, currentOrigin) ==
    IF /\ response.status >= 300 /\ response.status < 400
       /\ response.location # Null
    THEN IF \/ IncludesLogin(response.location[1])
            \/ ~isInternalLink(response.location[1], currentOrigin)
         THEN NavigationResult(FALSE, TRUE, response.location)
         ELSE NavigationResult(TRUE, FALSE, response.location)
    ELSE IF ~Ok(response)
    THEN NavigationResult(FALSE, TRUE, Null)
    ELSE NavigationResult(TRUE, FALSE, Null)

Min(a, b) == IF a < b THEN a ELSE b

RECURSIVE PreservedLoopNoBreak(_, _, _, _)
\* the loop of calculatePreservedLayouts without its break
PreservedLoopNoBreak(currentLayouts, newLayouts, i, minLength) ==
    IF i >= minLength THEN 0
    ELSE (IF currentLayouts[i + 1] = newLayouts[i + 1] THEN 1 ELSE 0)
         + PreservedLoopNoBreak(currentLayouts, newLayouts, i + 1, minLength)

RECURSIVE PreservedLoop(_, _, _, _)
\* for (let i = 0; i < minLength; i++): what the loop adds to
\* preservedCount from index i on
PreservedLoop(currentLayouts, newLayouts, i, minLength) ==
    IF i >= minLength THEN 0
    ELSE IF currentLayouts[i + 1] = newLayouts[i + 1]
    THEN 1 + PreservedLoop(currentLayouts, newLayouts, i + 1, minLength)
    ELSE 0

\* calculatePreservedLayouts(currentRoute, newRoute)
calculatePreservedLayouts(currentRoute, newRoute) ==
    IF currentRoute = Null THEN 0
    ELSE LET currentLayouts == currentRoute[1].layouts
             newLayouts == newRoute.layouts
             minLength == Min(Len(currentLayouts), Len(newLayouts))
         IN  PreservedLoop(currentLayouts, newLayouts, 0, minLength)

\* createRouteElementWithPreservation(route, preservedLayoutCount): the keys
\* of the layout elements, outermost first; now is what Date.now() returns
createRouteElementWithPreservation(route, preservedLayoutCount, now) ==
    [n \in 1..Len(route.layouts) |->
        IF n - 1 < preservedLayoutCount
        THEN <<"preserved-layout", n - 1>>
        ELSE <<"new-layout", n - 1, now>>]

\* shouldSkipNavigation(currentPath, targetPath)
shouldSkipNavigation(currentPath, targetPath) == currentPath = targetPath

\* window.location.href = target, assigned by the statement `by`: the
\* failure branches of handleNavigationFailure ("redirect", "failure"), the
\* missing route in processSuccessfulNavigation ("notFound"), or the catch
\* block of navigateWithServer ("catch")
FullPageNavigation(b, target, by) ==
    [b EXCEPT !.location = <<[href |-> target, by |-> by]>>]

\* the browser as the page finds it after loading
BrowserInit == [location |-> Null, commits |-> <<>>]

ClientInit ==
    /\ router = createRouterState
    /\ navs = {}
    /\ browser = BrowserInit

\* navigateWithServer without the check of the current path
navigateWithServerNoSkip(path, pushState) ==
    /\ navs' = navs \cup {[path |-> path, pushState |-> pushState]}
    /\ UNCHANGED <<router, browser>>

\* navigateWithServer(path, pushState) up to `await fetch(path, ...)`:
\* nothing happens for the current path, otherwise the request is issued
navigateWithServer(path, pushState) ==
    IF shouldSkipNavigation(router.currentPath, path)
    THEN UNCHANGED <<router, navs, browser>>
    ELSE /\ navs' = navs \cup {[path |-> path, pushState |-> pushState]}
         /\ UNCHANGED <<router, browser>>

Budget == Len(browser.commits) + Cardinality(navs) < MaxNavigations

\* configureRoutes(routes)
ClientConfigureRoutes ==
    /\ \E t \in ClientTables : router' = updateRoutes(router, t)
    /\ UNCHANGED <<navs, browser, mw, am, serverVars,
                   routesVars, fnVars>>

\* addRoute(route)
ClientAddRoute ==
    /\ \E r \in {RouteA, RouteB, RouteA2} : router' = addRoute(router, r)
    /\ UNCHANGED <<navs, browser, mw, am, serverVars,
                   routesVars, fnVars>>

\* removeRoute(path)
ClientRemoveRoute ==
    /\ \E path \in NavPaths : router' = removeRoute(router, path)
    /\ UNCHANGED <<navs, browser, mw, am, serverVars,
                   routesVars, fnVars>>

\* setRenderCallback(callback): a callback that renders, or one that throws
ClientSetRenderCallback ==
    /\ \E cb \in {"renders", "throws"} :
          router' = setRenderCallback(router, cb)
    /\ UNCHANGED <<navs, browser, mw, am, serverVars,
                   routesVars, fnVars>>

\* navigate(path, pushState)
Navigate ==
    /\ Budget
    /\ \E path \in NavPaths, pushState \in BOOLEAN :
          navigateWithServer(path, pushState)
    /\ UNCHANGED <<mw, am, serverVars, routesVars, fnVars>>

\* a click on an internal link: navigateWithServer(link.pathname)
LinkClick ==
    /\ Budget
    /\ \E path \in NavPaths : navigateWithServer(path, TRUE)
    /\ UNCHANGED <<mw, am, serverVars, routesVars, fnVars>>

\* initialize() and popstate: navigateWithServer(location.pathname, false)
PopState ==
    /\ Budget
    /\ \E path \in NavPaths : navigateWithServer(path, FALSE)
    /\ UNCHANGED <<mw, am, serverVars, routesVars, fnVars>>

\* the catch block of navigateWithServer(path, ...) that reloads the
\* current path instead of the requested one
catchBlockReloadCurrent(b, nav) ==
    FullPageNavigation(b, router.currentPath, "catch")

\* the catch block of navigateWithServer(path, ...):
\* fallbackToFullPageNavigation(path)
catchBlock(b, nav) == FullPageNavigation(b, nav.path, "catch")

\* the last call of navigateWithServer as its caller made it: the trigger,
\* the pushState argument, and whether the target path was the current path
\* at that time
Called(trigger, path, pushState) ==
    [name |-> trigger, args |-> <<pushState>>,
     result |-> <<shouldSkipNavigation(router.currentPath, path)>>,
     done |-> TRUE]

\* a navigation can be started, or the call is one for the current path
CanCall(path) == Budget \/ shouldSkipNavigation(router.currentPath, path)

\* navigate(path, pushState), pushState defaulting to true
CallNavigate ==
    /\ \E path \in NavPaths, pushState \in BOOLEAN :
          /\ CanCall(path)
          /\ navigateWithServer(path, pushState)
          /\ fn' = Called("navigate", path, pushState)
    /\ UNCHANGED <<mw, am, serverVars, routesVars>>

\* the click listener on an internal link: navigateWithServer(link.pathname)
CallLinkClick ==
    /\ \E path \in NavPaths :
          /\ CanCall(path)
          /\ navigateWithServer(path, TRUE)
          /\ fn' = Called("click", path, TRUE)
    /\ UNCHANGED <<mw, am, serverVars, routesVars>>

\* initialize() and the popstate listener:
\* navigateWithServer(window.location.pathname, false)
CallPopState ==
    /\ \E path \in NavPaths :
          /\ CanCall(path)
          /\ navigateWithServer(path, FALSE)
          /\ fn' = Called("popstate", path, FALSE)
    /\ UNCHANGED <<mw, am, serverVars, routesVars>>

\* navigate(path, pushState), with the paths of the calls made so far kept in
\* the order of the calls
NavigateLogged ==
    /\ Budget
    /\ Len(fn.args) < MaxNavigations
    /\ \E path \in NavPaths, pushState \in BOOLEAN :
          /\ navigateWithServer(path, pushState)
          /\ fn' = [name |-> "navigate", args |-> Append(fn.args, path),
                    result |-> Null, done |-> TRUE]
    /\ UNCHANGED <<mw, am, serverVars, routesVars>>

\* the statements of processSuccessfulNavigation with history.pushState
\* ahead of the state update
NavigationStepsPushFirst(pushState, callback, thrower) ==
    LET all == (IF pushState THEN <<"push">> ELSE <<>>)
               \o <<"state">>
               \o (IF callback # "null" THEN <<"render">> ELSE <<>>)
               \o <<"event">>
        before == {i \in 0..Len(all) : \A j \in 1..i : all[j] # thrower}
    IN  SubSeq(all, 1, CHOOSE i \in before : \A k \in before : k <= i)

\* the statements of processSuccessfulNavigation after the route lookup that
\* complete, in the order they run, when the statement `thrower` throws
\* ("none": none does): updateCurrentRoute, history.pushState if pushState,
\* the render callback if there is one, dispatchNavigationEvent
NavigationSteps(pushState, callback, thrower) ==
    LET all == <<"state">>
               \o (IF pushState THEN <<"push">> ELSE <<>>)
               \o (IF callback # "null" THEN <<"render">> ELSE <<>>)
               \o <<"event">>
        before == {i \in 0..Len(all) : \A j \in 1..i : all[j] # thrower}
    IN  SubSeq(all, 1, CHOOSE i \in before : \A k \in before : k <= i)

\* the record of a navigation that went through processSuccessfulNavigation
\* past the route lookup: what it set, pushed, rendered and dispatched,
\* `fetched`: the request and response its continuation had awaited,
\* `element`: the layout keys of the element handed to the render callback
\* (null without a callback), `now`: the clock reading at that time, and
\* `steps`: its statements that completed, in the order they ran
Commit(path, route, preserved, pushed, rendered, event, fetched, element, now, steps) ==
    [path |-> path, route |-> route, preserved |-> preserved,
     pushed |-> pushed, rendered |-> rendered, event |-> event,
     fetched |-> fetched, element |-> element, now |-> now,
     steps |-> steps]

\* the last reading of Date.now() made so far
LastReading ==
    IF browser.commits = <<>> THEN 0
    ELSE browser.commits[Len(browser.commits)].now

\* what Date.now() can return while the element for nav is created: the
\* last reading or a later one; Date.now() is read only for a layout that
\* is not preserved
ClockReadings(nav) ==
    LET newRoute == getRoute(router, nav.path)
    IN  IF \/ newRoute = Null
           \/ router.renderCallback = "null"
           \/ calculatePreservedLayouts(router.currentRoute, newRoute[1])
                 >= Len(newRoute[1].layouts)
        THEN {LastReading}
        ELSE IF browser.commits = <<>> THEN {LastReading}
        ELSE {LastReading, LastReading + 1}


\* processSuccessfulNavigation that, for a path without a route, reloads the
\* current path as handleNavigationFailure does
processSuccessfulNavigationReloadCurrent(nav, response, now) ==
    LET newRoute == getRoute(router, nav.path)
    IN  IF newRoute = Null
        THEN /\ browser' = FullPageNavigation(browser, router.currentPath,
                                              "notFound")
             /\ UNCHANGED router
        ELSE LET preservedLayouts ==
                     calculatePreservedLayouts(router.currentRoute,
                                               newRoute[1])
                 threw == router.renderCallback = "throws"
                 element ==
                     IF router.renderCallback = "null" THEN Null
                     ELSE <<createRouteElementWithPreservation(
                                newRoute[1], preservedLayouts, now)>>
                 c == Commit(nav.path, newRoute[1], preservedLayouts,
                             nav.pushState,
                             router.renderCallback = "renders", ~threw,
                             [path |-> nav.path, response |-> response],
                             element, now,
                             NavigationSteps(nav.pushState,
                                             router.renderCallback,
                                             IF threw THEN "render"
                                             ELSE "none"))
                 b == [browser EXCEPT !.commits = Append(@, c)]
             IN  /\ router' = updateCurrentRoute(router, nav.path,
                                                 newRoute[1])
                 /\ browser' = IF threw
                               THEN FullPageNavigation(b, nav.path, "catch")
                               ELSE b

\* processSuccessfulNavigation(path, pushState), with the catch block of
\* navigateWithServer for a render callback that throws
processSuccessfulNavigation(nav, response, now) ==
    LET newRoute == getRoute(router, nav.path)
    IN  IF newRoute = Null
        THEN /\ browser' = FullPageNavigation(browser, nav.path, "notFound")
             /\ UNCHANGED router
        ELSE LET preservedLayouts ==
                     calculatePreservedLayouts(router.currentRoute,
                                               newRoute[1])
                 threw == router.renderCallback = "throws"
                 element ==
                     IF router.renderCallback = "null" THEN Null
                     ELSE <<createRouteElementWithPreservation(
                                newRoute[1], preservedLayouts, now)>>
                 c == Commit(nav.path, newRoute[1], preservedLayouts,
                             nav.pushState,
                             router.renderCallback = "renders", ~threw,
                             [path |-> nav.path, response |-> response],
                             element, now,
                             NavigationSteps(nav.pushState,
                                             router.renderCallback,
                                             IF threw THEN "render"
                                             ELSE "none"))
                 b == [browser EXCEPT !.commits = Append(@, c)]
             IN  /\ router' = updateCurrentRoute(router, nav.path,
                                                 newRoute[1])
                 /\ browser' = IF threw THEN catchBlock(b, nav) ELSE b

\* handleNavigationFailure(result)
handleNavigationFailure(result) ==
    IF result.shouldFallbackToFullPage
    THEN IF result.redirectTo # Null
         THEN browser' = FullPageNavigation(browser, result.redirectTo[1],
                                            "redirect")
         ELSE browser' = FullPageNavigation(browser, router.currentPath,
                                            "failure")
    ELSE UNCHANGED browser

\* navigateWithServer after `await fetch`: the response is analysed and the
\* navigation fails, follows the redirect or is processed
FetchResumes ==
       \E nav \in navs, response \in FetchResponses :
          LET navigationResult ==
                  analyzeNavigationResponse(response, CurrentOrigin)
              rest == navs \ {nav}
          IN  IF ~navigationResult.success
              THEN /\ handleNavigationFailure(navigationResult)
                   /\ navs' = rest
                   /\ UNCHANGED router
              ELSE IF navigationResult.redirectTo # Null
              THEN /\ navs' =
                        IF shouldSkipNavigation(
                               router.currentPath,
                               navigationResult.redirectTo[1])
                        THEN rest
                        ELSE rest \cup
                               {[path |-> navigationResult.redirectTo[1],
                                 pushState |-> nav.pushState]}
                   /\ UNCHANGED <<router, browser>>
              ELSE /\ \E now \in ClockReadings(nav) :
                        processSuccessfulNavigation(nav, response, now)
                   /\ navs' = rest

\* the continuation of a navigateWithServer call resumes with a response
FetchReturns ==
    /\ FetchResumes
    /\ UNCHANGED <<mw, am, serverVars, routesVars, fnVars>>

\* FetchReturns with the responses counted modulo 2, so that the answer to
\* a request and the answer to the request re-run on its redirect target
\* are two steps also when the target is the request's own URL
FetchReturnsCounted ==
    /\ FetchResumes
    /\ fn' = [name |-> "fetch",
              args |-> <<IF fn.args = <<>> THEN 1 ELSE (fn.args[1] + 1) % 2>>,
              result |-> Null, done |-> TRUE]
    /\ UNCHANGED <<mw, am, serverVars, routesVars>>

\* navigate(path, pushState) while no navigation is in flight
NavigateAlone == navs = {} /\ Navigate

\* fetch rejects (network failure): the catch block falls back
FetchFails ==
    /\ \E nav \in navs :
          /\ browser' = catchBlock(browser, nav)
          /\ navs' = navs \ {nav}
          /\ UNCHANGED router
    /\ UNCHANGED <<mw, am, serverVars, routesVars, fnVars>>


\* the statements inside the try block of navigateWithServer, after the
\* fetch, that can throw besides the render callback: analyzeResponse,
\* updateCurrentRoute, history.pushState and dispatchNavigationEvent
ThrowPoints == {"analyze", "update", "push", "dispatch"}

\* navigateWithServer after `await fetch` when the statement `at` throws:
\* the statements before it have taken effect and the catch block runs
NavigationThrows ==
    /\ \E nav \in navs, response \in FetchResponses, at \in ThrowPoints :
          LET navigationResult ==
                  analyzeNavigationResponse(response, CurrentOrigin)
              newRoute == getRoute(router, nav.path)
              reached ==
                  /\ navigationResult.success
                  /\ navigationResult.redirectTo = Null
                  /\ newRoute # Null
              preservedLayouts ==
                  calculatePreservedLayouts(router.currentRoute, newRoute[1])
              fetched == [path |-> nav.path, response |-> response]
          IN  /\ navs' = navs \ {nav}
              /\ CASE at = "analyze" ->
                        /\ browser' = catchBlock(browser, nav)
                        /\ UNCHANGED router
                   [] at = "update" ->
                        /\ reached
                        /\ browser' = catchBlock(browser, nav)
                        /\ UNCHANGED router
                   [] at = "push" ->
                        /\ reached
                        /\ nav.pushState
                        /\ router' = updateCurrentRoute(router, nav.path,
                                                        newRoute[1])
                        /\ browser' =
                             catchBlock(
                                [browser EXCEPT !.commits = Append(@,
                                    Commit(nav.path, newRoute[1],
                                           preservedLayouts, FALSE, FALSE,
                                           FALSE, fetched, Null,
                                           LastReading,
                                           NavigationSteps(
                                             TRUE, router.renderCallback,
                                             "push")))],
                                nav)
                   [] at = "dispatch" ->
                        /\ reached
                        /\ router.renderCallback # "throws"
                        /\ router' = updateCurrentRoute(router, nav.path,
                                                        newRoute[1])
                        /\ \E now \in ClockReadings(nav) :
                             browser' =
                               catchBlock(
                                 [browser EXCEPT !.commits = Append(@,
                                    Commit(nav.path, newRoute[1],
                                           preservedLayouts, nav.pushState,
                                           router.renderCallback = "renders",
                                           FALSE, fetched,
                                           IF router.renderCallback = "null"
                                           THEN Null
                                           ELSE <<
                                           createRouteElementWithPreservation(
                                             newRoute[1], preservedLayouts,
                                             now)>>,
                                           now,
                                           NavigationSteps(
                                             nav.pushState,
                                             router.renderCallback,
                                             "event")))],
                                 nav)
    /\ UNCHANGED <<mw, am, serverVars, routesVars, fnVars>>

----------------------------------------------------------------------------
(* routes: route-state.ts, factories.ts, route-functions.ts, Routes *)

\* page(component, metadata), api(handler), routes(routesInstance); the
\* nested instance is held by reference and read when the table is flattened
Page(component, metadata, rateLimit) ==
    [type |-> "page", component |-> component, metadata |-> metadata,
     rateLimit |-> rateLimit]
Api(handler, rateLimit) ==
    [type |-> "api", handler |-> handler, rateLimit |-> rateLimit]
Nested(routesInstance) == [type |-> "routes", routes |-> routesInstance]

\* createRouteState()
createRouteState ==
    [segments |-> <<>>, currentLayout |-> Null, currentMiddleware |-> Null]

\* addSegment(state, path, descriptor)
addSegment(state, path, descriptor) ==
    [state EXCEPT !.segments =
        Append(@, [path |-> path, resolver |-> descriptor])]

\* setLayout(state, layoutComponent)
setLayout(state, layoutComponent) ==
    [state EXCEPT !.currentLayout = Str(layoutComponent)]

\* setMiddleware(state, middlewareFunction)
setMiddleware(state, middlewareFunction) ==
    [state EXCEPT !.currentMiddleware = Str(middlewareFunction)]

\* paths are sequences of tokens, "/" being a token of its own
Slash == "/"
DashboardPath == <<Slash, "dashboard">>
UsersPath == <<"users">>
DashboardSlashPath == <<Slash, "dashboard", Slash>>
SlashUsersPath == <<Slash, "users">>

\* joinPaths(base, path)
joinPaths(base, path) ==
    IF base = <<>> THEN path
    ELSE IF path = <<>> THEN base
    ELSE LET cleanBase == IF base[Len(base)] = Slash
                          THEN SubSeq(base, 1, Len(base) - 1) ELSE base
             cleanPath == IF path[1] = Slash
                          THEN SubSeq(path, 2, Len(path)) ELSE path
         IN  cleanBase \o <<Slash>> \o cleanPath

\* buildLayoutHierarchy that puts the table's own layout outermost
buildLayoutHierarchyPrepend(parentLayouts, currentLayout) ==
    IF currentLayout # Null THEN <<currentLayout[1]>> \o parentLayouts
    ELSE parentLayouts

\* buildLayoutHierarchy(parentLayouts, currentLayout)
buildLayoutHierarchy(parentLayouts, currentLayout) ==
    IF currentLayout # Null THEN Append(parentLayouts, currentLayout[1])
    ELSE parentLayouts

\* buildMiddlewareStack(parentMiddleware, currentMiddleware)
buildMiddlewareStack(parentMiddleware, currentMiddleware) ==
    IF currentMiddleware # Null
    THEN Append(parentMiddleware, currentMiddleware[1])
    ELSE parentMiddleware


\* normalizeMiddleware that keeps a list of one function as a list
normalizeMiddlewareKeepList(middlewareStack) ==
    IF Len(middlewareStack) = 0 THEN NoMw ELSE ListMw(middlewareStack)

\* normalizeMiddleware(middlewareStack)
normalizeMiddleware(middlewareStack) ==
    IF Len(middlewareStack) = 0 THEN NoMw
    ELSE IF Len(middlewareStack) = 1 THEN OneMw(middlewareStack[1])
    ELSE ListMw(middlewareStack)

\* throw new Error(`Expected ${expected} segment, got ${got}`)
SegmentError(expected, got) ==
    [thrown |-> TRUE, message |-> <<"Expected ", expected, " segment, got ", got>>]

\* createClientRoute whose error names the api tag whatever it was given
createClientRouteGotApi(segmentEntry, fullPath, layouts, middleware) ==
    SegmentError("page", "api")

\* createClientRoute(segmentEntry, fullPath, layouts, middleware)
createClientRoute(segmentEntry, fullPath, layouts, middleware) ==
    IF segmentEntry.resolver.type # "page"
    THEN SegmentError("page", segmentEntry.resolver.type)
    ELSE
    [path |-> fullPath,
     component |-> segmentEntry.resolver.component,
     layouts |-> layouts,
     metadata |-> IF segmentEntry.resolver.metadata # Null
                  THEN segmentEntry.resolver.metadata
                  ELSE Str(<<"Page ">> \o fullPath),
     middleware |-> normalizeMiddleware(middleware),
     rateLimit |-> segmentEntry.resolver.rateLimit]

\* createApiRoute(segmentEntry, fullPath, middleware)
createApiRoute(segmentEntry, fullPath, middleware) ==
    IF segmentEntry.resolver.type # "api"
    THEN SegmentError("api", segmentEntry.resolver.type)
    ELSE
    [path |-> fullPath, handler |-> segmentEntry.resolver.handler,
     middleware |-> normalizeMiddleware(middleware),
     rateLimit |-> segmentEntry.resolver.rateLimit]


\* an environment check that takes every context for the server
isServerEnvironmentAlways(window) == TRUE

\* isServerEnvironment(): typeof window === "undefined"; window is the
\* global of the execution context, Null where there is none
isServerEnvironment(window) == window = Null

RouteContext(basePath, parentLayouts, parentMiddleware) ==
    [basePath |-> basePath, parentLayouts |-> parentLayouts,
     parentMiddleware |-> parentMiddleware]

FlattenResult(clientRoutes, apiRoutes) ==
    [clientRoutes |-> clientRoutes, apiRoutes |-> apiRoutes]

RECURSIVE FlattenSegments(_, _, _, _, _)
\* the loop of flattenRoutes over state.segments, from the i-th segment on;
\* all is the instances by name, isServer is isServerEnvironment()
FlattenSegments(all, name, i, context, isServer) ==
    LET state == all[name]
    IN  IF i > Len(state.segments) THEN FlattenResult(<<>>, <<>>)
        ELSE
        LET segmentEntry == state.segments[i]
            resolver == segmentEntry.resolver
            fullPath == joinPaths(context.basePath, segmentEntry.path)
            currentLayouts == buildLayoutHierarchy(context.parentLayouts,
                                                   state.currentLayout)
            currentMiddlewareStack ==
                buildMiddlewareStack(context.parentMiddleware,
                                     state.currentMiddleware)
            rest == FlattenSegments(all, name, i + 1, context, isServer)
            here ==
                IF resolver.type = "page"
                THEN FlattenResult(
                         <<createClientRoute(segmentEntry, fullPath,
                                             currentLayouts,
                                             currentMiddlewareStack)>>,
                         <<>>)
                ELSE IF resolver.type = "api"
                THEN FlattenResult(
                         <<>>,
                         IF isServer
                         THEN <<createApiRoute(segmentEntry, fullPath,
                                               currentMiddlewareStack)>>
                         ELSE <<>>)
                ELSE FlattenSegments(
                         all, resolver.routes, 1,
                         RouteContext(fullPath, currentLayouts,
                                      currentMiddlewareStack),
                         isServer)
        IN  FlattenResult(here.clientRoutes \o rest.clientRoutes,
                          here.apiRoutes \o rest.apiRoutes)

\* flattenRoutes(state, context)
flattenRoutes(all, name, context, isServer) ==
    FlattenSegments(all, name, 1, context, isServer)

\* Routes.getClientRoutes() of the root instance
getClientRoutes(all) ==
    flattenRoutes(all, "root", RouteContext(<<>>, <<>>, <<>>), TRUE)
        .clientRoutes

\* Routes.getApiRoutes() of the root instance, on the server
getApiRoutes(all) ==
    flattenRoutes(all, "root", RouteContext(<<>>, <<>>, <<>>), TRUE).apiRoutes


\* extractServerRoutes that also drops the rate limit
extractServerRoutesNoRateLimit(clientRoutes) ==
    [i \in 1..Len(clientRoutes) |->
        [f \in (DOMAIN clientRoutes[i]) \ {"component", "layouts", "rateLimit"}
            |-> clientRoutes[i][f]]]

\* extractServerRoutes(clientRoutes):
\* ({ component, layouts, ...serverRoute }) => serverRoute
extractServerRoutes(clientRoutes) ==
    [i \in 1..Len(clientRoutes) |->
        [f \in (DOMAIN clientRoutes[i]) \ {"component", "layouts"} |->
            clientRoutes[i][f]]]

\* Routes.getServerRoute()
getServerRoute(all) == extractServerRoutes(getClientRoutes(all))

\* the Routes instance as configureRoutes reads it on the server
RoutesInstance(all) ==
    [pages |-> getServerRoute(all), apis |-> getApiRoutes(all)]

Instances == {"root", "child"}
LayoutComponents == {"L1", "L2"}
\* the function each instance hands to middleware()
MiddlewareFunctions(name) == IF name = "root" THEN {"auth"} ELSE {"log"}

\* what segment() is called with on each instance
SegmentCalls(name) ==
    IF name = "root"
    THEN {<<DashboardPath, Page("D", Null, Null)>>,
          <<DashboardSlashPath, Nested("child")>>}
    ELSE {<<UsersPath, Page("U", Str("Users"), Null)>>,
          <<SlashUsersPath, Page("V", Null, Str("limit"))>>,
          <<UsersPath, Api("h", Str("limit"))>>}

\* new Routes() twice; added[name][i] is the layout and the middleware that
\* were current on the instance when its i-th segment was added
RoutesInit ==
    tables = [state |-> [name \in Instances |-> createRouteState],
              added |-> [name \in Instances |-> <<>>]]

SegmentCount ==
    Len(tables.state["root"].segments) + Len(tables.state["child"].segments)

\* routes.layout(layoutComponent)
RoutesLayout ==
    /\ \E name \in Instances, layoutComponent \in LayoutComponents :
         tables' = [tables EXCEPT !.state[name] =
                                      setLayout(@, layoutComponent)]
    /\ UNCHANGED <<mw, am, serverVars, clientVars, fnVars>>

\* routes.middleware(middlewareFunction)
RoutesMiddleware ==
    /\ \E name \in Instances :
       \E middlewareFunction \in MiddlewareFunctions(name) :
         tables' = [tables EXCEPT !.state[name] =
                                      setMiddleware(@, middlewareFunction)]
    /\ UNCHANGED <<mw, am, serverVars, clientVars, fnVars>>

\* routes.segment(path, descriptor)
RoutesSegment ==
    /\ SegmentCount < MaxSegments
    /\ \E name \in Instances :
         \E call \in SegmentCalls(name) :
            tables' =
                [tables EXCEPT
                    !.state[name] = addSegment(@, call[1], call[2]),
                    !.added[name] =
                        Append(@, [layout |->
                                       tables.state[name].currentLayout,
                                   middleware |->
                                       tables.state[name].currentMiddleware])]
    /\ UNCHANGED <<mw, am, serverVars, clientVars, fnVars>>

----------------------------------------------------------------------------
(* navigation-functions called on their own *)

NoFn == [name |-> "none", args |-> <<>>, result |-> Null, done |-> FALSE]

\* the layout lists of length up to n over three layout components
LayoutLists(n) ==
    UNION {[1..k -> {"L1", "L2", "L3"}] : k \in 0..n}

\* the routes handed to calculatePreservedLayouts
LayoutRoutes ==
    {ClientRoute(Rel("/a"), "A", l) : l \in LayoutLists(MaxLayouts)}


\* the strings handed to joinPaths: up to MaxPathLen tokens, each "/" or a
\* piece of text without a "/"
PathStrings == UNION {[1..k -> {Slash, "base", "seg"}] : k \in 0..MaxPathLen}


\* one descriptor of each tag
Descriptors == {Page("U", Null, Null), Api("h", Null), Nested("child")}

FnInit ==
    \/ fn \in {[name |-> "calculatePreservedLayouts",
                args |-> <<currentRoute, newRoute>>,
                result |-> Null, done |-> FALSE] :
               currentRoute \in {Null} \cup {<<r>> : r \in LayoutRoutes},
               newRoute \in LayoutRoutes}
    \/ fn \in {[name |-> "analyzeNavigationResponse",
                args |-> <<response, CurrentOrigin>>,
                result |-> Null, done |-> FALSE] :
               response \in Responses}
    \/ fn \in {[name |-> "joinPaths", args |-> <<base, path>>,
                result |-> Null, done |-> FALSE] :
               base \in PathStrings, path \in PathStrings}
    \/ fn \in {[name |-> accessor,
                args |-> <<[path |-> UsersPath, resolver |-> descriptor],
                           <<Slash, "users">>, <<"L1">>, middleware>>,
                result |-> Null, done |-> FALSE] :
               accessor \in {"createClientRoute", "createApiRoute"},
               descriptor \in Descriptors,
               middleware \in {<<>>, <<"auth">>}}

\* calculatePreservedLayouts(currentRoute, newRoute)
FnCalculatePreservedLayouts ==
    /\ fn.name = "calculatePreservedLayouts" /\ ~fn.done
    /\ fn' = [fn EXCEPT
                 !.result = calculatePreservedLayouts(fn.args[1], fn.args[2]),
                 !.done = TRUE]
    /\ UNCHANGED <<mw, am, serverVars, clientVars, routesVars>>

\* analyzeNavigationResponse(response, currentOrigin)
FnAnalyzeNavigationResponse ==
    /\ fn.name = "analyzeNavigationResponse" /\ ~fn.done
    /\ fn' = [fn EXCEPT
                 !.result = analyzeNavigationResponse(fn.args[1], fn.args[2]),
                 !.done = TRUE]
    /\ UNCHANGED <<mw, am, serverVars, clientVars, routesVars>>


\* joinPaths(base, path)
FnJoinPaths ==
    /\ fn.name = "joinPaths" /\ ~fn.done
    /\ fn' = [fn EXCEPT !.result = joinPaths(fn.args[1], fn.args[2]),
                        !.done = TRUE]
    /\ UNCHANGED <<mw, am, serverVars, clientVars, routesVars>>


\* createClientRoute(segmentEntry, fullPath, layouts, middleware)
FnCreateClientRoute ==
    /\ fn.name = "createClientRoute" /\ ~fn.done
    /\ fn' = [fn EXCEPT !.result = createClientRoute(fn.args[1], fn.args[2],
                                                      fn.args[3], fn.args[4]),
                        !.done = TRUE]
    /\ UNCHANGED <<mw, am, serverVars, clientVars, routesVars>>

\* createApiRoute(segmentEntry, fullPath, middleware)
FnCreateApiRoute ==
    /\ fn.name = "createApiRoute" /\ ~fn.done
    /\ fn' = [fn EXCEPT !.result = createApiRoute(fn.args[1], fn.args[2],
                                                   fn.args[4]),
                        !.done = TRUE]
    /\ UNCHANGED <<mw, am, serverVars, clientVars, routesVars>>

----------------------------------------------------------------------------
(* Specifications *)

IdleMw == mw = MwStart(<<>>)
IdleAm == am = [cache |-> createAssetCache, env |-> DefaultEnv,
                call |-> NoCall, prev |-> NoCall]
IdleClient == ClientInit
IdleRoutes == RoutesInit
IdleFn == fn = NoFn

\* one composeMiddleware call
InitMw == MwInit /\ IdleAm /\ ServerInit /\ middlewareConfig.enableRateLimit
          /\ IdleClient /\ IdleRoutes /\ IdleFn
NextMw == MwInvoke \/ MwReturn
SpecMw == InitMw /\ [][NextMw]_vars

\* resolutions of the two bundles, each installed before the next
InitAm == IdleMw /\ AmInit /\ ServerInit /\ middlewareConfig.enableRateLimit
          /\ IdleClient /\ IdleRoutes /\ IdleFn
NextAm == AmGetClientBundle \/ AmGetCSSBundle \/ AmInstall
SpecAm == InitAm /\ [][NextAm]_vars

\* the server, one request at a time
InitSeq == IdleMw /\ IdleAm /\ ServerInit /\ IdleClient /\ IdleRoutes /\ IdleFn
NextSeq == SeqConfigure \/ SeqBegin \/ SeqComplete
SpecSeq == InitSeq /\ [][NextSeq]_vars

\* the server, with overlapping requests
InitServer == IdleMw /\ IdleAm /\ ServerInit /\ middlewareConfig.enableRateLimit
              /\ IdleClient /\ IdleRoutes /\ IdleFn
NextServer == Configure \/ Begin \/ Complete
SpecServer == InitServer /\ [][NextServer]_vars

\* the navigation engine of one page
InitClient == IdleMw /\ IdleAm /\ ServerInit /\ middlewareConfig.enableRateLimit
              /\ ClientInit /\ IdleRoutes /\ IdleFn
NextClient ==
    \/ ClientConfigureRoutes \/ ClientAddRoute \/ ClientRemoveRoute
    \/ ClientSetRenderCallback
    \/ Navigate \/ LinkClick \/ PopState
    \/ FetchReturns \/ FetchFails
SpecClient == InitClient /\ [][NextClient]_vars

\* the client over a route table configured as a whole, with the statements
\* of a navigation that can throw
NextThrows ==
    \/ ClientConfigureRoutes \/ ClientSetRenderCallback
    \/ Navigate
    \/ FetchReturns \/ FetchFails \/ NavigationThrows
SpecThrows == InitClient /\ [][NextThrows]_vars

\* the client over a route table configured as a whole and a network that
\* answers every request, with the last call of navigateWithServer on record
NextCalls ==
    \/ ClientConfigureRoutes \/ ClientSetRenderCallback
    \/ CallNavigate \/ CallLinkClick \/ CallPopState
    \/ FetchReturns
SpecCalls == InitClient /\ [][NextCalls]_vars

\* the client over a route table configured as a whole and a network that
\* answers every request in any order, with the order of the navigate calls
\* on record
NextOverlap ==
    \/ ClientConfigureRoutes \/ ClientSetRenderCallback
    \/ NavigateLogged
    \/ FetchReturns
SpecOverlap == InitClient /\ [][NextOverlap]_vars

\* one navigation at a time over a network on which every request is
\* eventually answered or fails
NextAnswered ==
    \/ ClientConfigureRoutes \/ ClientSetRenderCallback
    \/ NavigateAlone
    \/ FetchReturnsCounted \/ FetchFails
SpecAnswered ==
    /\ InitClient
    /\ [][NextAnswered]_vars
    /\ WF_vars(FetchReturnsCounted \/ FetchFails)

\* the declaration of a route table
InitRoutes == IdleMw /\ IdleAm /\ ServerInit /\ middlewareConfig.enableRateLimit
              /\ IdleClient /\ RoutesInit /\ IdleFn
NextRoutes == RoutesLayout \/ RoutesMiddleware \/ RoutesSegment
SpecRoutes == InitRoutes /\ [][NextRoutes]_vars

\* single calls of the navigation functions
InitFn == IdleMw /\ IdleAm /\ ServerInit /\ middlewareConfig.enableRateLimit
          /\ IdleClient /\ IdleRoutes /\ FnInit
NextFn ==
    \/ FnCalculatePreservedLayouts \/ FnAnalyzeNavigationResponse
    \/ FnJoinPaths \/ FnCreateClientRoute \/ FnCreateApiRoute
SpecFn == InitFn /\ [][NextFn]_vars

----------------------------------------------------------------------------
(* Claims about the middleware pipeline *)

\* the index of the first middleware of the list that returns a Response,
\* 0 when none does
FirstResponse(list) ==
    LET ks == {k \in 1..Len(list) : list[k].kind = "resp"}
    IN  IF ks = {} THEN 0 ELSE CHOOSE k \in ks : \A j \in ks : k <= j

IsFn(o) == o.kind = "fn"

\* C2: composeMiddleware calls the middlewares in list order, one after the
\* other; when the k-th is the first to return a Response, the result is
\* exactly that Response, middlewares k+1.. are never called and no
\* modifier collected from 1..k-1 is applied to it.
C2_ShortCircuit ==
    LET k == FirstResponse(mw.list)
    IN  /\ mw.invoked = [j \in 1..Len(mw.invoked) |-> j]
        /\ k # 0 => Len(mw.invoked) <= k
        /\ (mw.done /\ k # 0) =>
              /\ Len(mw.invoked) = k
              /\ mw.result = MwResp(mw.list[k].resp)
              /\ mw.result.resp.mods = <<>>

\* a call that collected a modifier, then met a Response, with a
\* middleware left after it
C2_Witness ==
    /\ mw.done
    /\ mw.result.kind = "resp"
    /\ FirstResponse(mw.list) = 2
    /\ mw.list[1].kind = "fn"
    /\ Len(mw.list) = 3
    /\ Len(mw.invoked) = 2

\* C3: without a short-circuit composeMiddleware returns one modifier that
\* applies every collected modifier exactly once in collection order
\* (g(f(r)) for collected [f, g]), and returns null exactly when no
\* modifier was collected.
C3_ComposedModifier ==
    (mw.done /\ FirstResponse(mw.list) = 0) =>
        LET fs == SelectSeq(mw.list, IsFn)
            ids == [j \in 1..Len(fs) |-> fs[j].chain[1]]
        IN  /\ (mw.result = MwNull) <=> (fs = <<>>)
            /\ fs # <<>> =>
                 /\ mw.result.kind = "fn"
                 /\ \A r \in {Resp(200, "r", {}),
                              CallModifier("h", Resp(200, "r", {}))} :
                       ApplyFn(mw.result, r) = [r EXCEPT !.mods = @ \o ids]

\* the list [f, Continue, g] ran to its end
C3_Witness ==
    /\ mw.done
    /\ mw.list = <<MwFn(<<"f">>), MwNull, MwFn(<<"g">>)>>
    /\ ApplyFn(mw.result, Resp(200, "r", {})).mods = <<"f", "g">>

----------------------------------------------------------------------------
(* Claims about the asset cache *)

OtherKey(key) == IF key = "clientBundle" THEN "cssBundle" ELSE "clientBundle"

\* what the prebuilt store holds for the key
PrebuiltFor(env, key) ==
    IF key = "clientBundle" THEN env.prebuiltJs ELSE env.prebuiltCss

InTrace(trace, tier) == \E i \in 1..Len(trace) : trace[i] = tier

\* C10: getClientBundle and getCSSBundle resolve in the order cache struct,
\* prebuilt store, compiler: the prebuilt store is consulted only when the
\* struct holds no artifact for the key, the compiler is called only when
\* neither the struct nor the prebuilt store supplies one, the returned
\* struct holds exactly the supplied value for the key and leaves the other
\* key unchanged, and a cache hit returns the struct as it is.
C10_ThreeTierResolution ==
    am.call.key # "none" =>
        LET key == am.call.key
            before == am.call.before
            r == am.call.res
        IN  /\ r.trace \in {<<"cache">>, <<"cache", "prebuilt">>,
                            <<"cache", "prebuilt", "compiler">>}
            /\ InTrace(r.trace, "prebuilt") => before[key] = Null
            /\ InTrace(r.trace, "compiler") =>
                  before[key] = Null /\ PrebuiltFor(am.env, key) = Null
            /\ ~r.threw =>
                  /\ r.updatedCache[key] = r.bundle
                  /\ r.updatedCache[OtherKey(key)] = before[OtherKey(key)]
            /\ r.trace = <<"cache">> =>
                  r.updatedCache = before /\ r.bundle = before[key]

\* C11: resolving the same asset twice in sequence, the struct returned by
\* the first call installed in between, returns the same content both
\* times and calls the compiler at most once over the two calls, whatever
\* artifact the compiler or the prebuilt store returned.
C11_CacheIdempotence ==
    (am.call.key # "none" /\ am.prev.key = am.call.key) =>
        /\ ~am.call.res.threw
        /\ am.call.res.bundle = am.prev.res.bundle
        /\ ~(InTrace(am.prev.res.trace, "compiler")
              /\ InTrace(am.call.res.trace, "compiler"))

----------------------------------------------------------------------------
(* Claims about the request dispatcher *)

TierRank(tier) ==
    CASE tier = "global" -> 1
      [] tier = "asset" -> 2
      [] tier = "api" -> 3
      [] tier = "page" -> 4

\* the tier that is first, in priority order, to produce a response for
\* the request of the call, each tier evaluated on its own
FirstProducingTier(call) ==
    LET req == call.req
    IN  IF applyGlobalMiddleware(req, middlewareConfig).resp # Null
        THEN "global"
        ELSE IF req.path \in {StylesPath, ClientJsPath} THEN "asset"
        ELSE IF handleAPIRouteRequest(req, call.routeCache,
                                      middlewareConfig).resp # Null
        THEN "api"
        ELSE "page"

\* the response of a tier evaluated on its own
TierResponse(call, tier) ==
    LET req == call.req
    IN  CASE tier = "global" ->
               applyGlobalMiddleware(req, middlewareConfig).resp[1]
          [] tier = "asset" ->
               IF req.path = StylesPath
               THEN handleCSSRequest(call.assetCache, req.env).response
               ELSE handleClientJSRequest(call.assetCache, req.env).response
          [] tier = "api" ->
               handleAPIRouteRequest(req, call.routeCache,
                                     middlewareConfig).resp[1]
          [] tier = "page" ->
               handlePageRouteRequest(req, call.routeCache,
                                      middlewareConfig).response

\* C4: routeRequest evaluates global middleware, the asset endpoints, the
\* API routes and the page routes in this order; the response is that of
\* the first tier that produces one, and no tier below it is evaluated.
C4_PriorityOrder ==
    \A call \in inflight :
        LET tr == call.result.trace
            first == FirstProducingTier(call)
        IN  /\ \A i, j \in 1..Len(tr) :
                  i < j => TierRank(tr[i].tier) <= TierRank(tr[j].tier)
            /\ call.result.tier = first
            /\ call.result.response = TierResponse(call, first)
            /\ \A i \in 1..Len(tr) :
                  TierRank(tr[i].tier) <= TierRank(first)

\* a request that passed the global middleware, met an API handler that
\* returned no Response and was answered by the page tier
C4_Witness ==
    \E call \in inflight :
        /\ call.result.tier = "page"
        /\ InTrace(call.result.trace, Ev("global", "suspicious"))
        /\ InTrace(call.result.trace, Ev("api", "handler"))
        /\ InTrace(call.result.trace, Ev("page", "getHTML"))

\* the outcomes of the functions of a route's middleware for a request
MiddlewareOutcomes(route, req) ==
    [k \in 1..Len(route.middleware.fns) |->
        MwOutcome(route.middleware.fns[k], req)]

\* the request of the call reached the middleware of a registered page
\* route, and one of its functions returned a Response
PageMiddlewareRejected(call) ==
    /\ call.result.tier = "page"
    /\ call.req.path \in DOMAIN call.routeCache.serverRoutes
    /\ InTrace(call.result.trace, Ev("page", "middleware"))
    /\ FirstResponse(MiddlewareOutcomes(
           call.routeCache.serverRoutes[call.req.path], call.req)) # 0

\* C5: when the per-route middleware (one function or a list) of a
\* registered page path short-circuits with a Response, that Response
\* itself is the answer: no page markup, no collected modifier applied,
\* for navigation requests and for plain requests alike.
C5_PageMiddlewareVerbatim ==
    \A call \in inflight :
        PageMiddlewareRejected(call) =>
            LET outs == MiddlewareOutcomes(
                            call.routeCache.serverRoutes[call.req.path],
                            call.req)
            IN  /\ call.result.response = outs[FirstResponse(outs)].resp
                /\ call.result.response.mods = <<>>
                /\ ~InTrace(call.result.trace, Ev("page", "markup"))

\* a navigation request rejected by the second function of a middleware
\* list whose first function had returned a modifier
C5_Witness ==
    \E call \in inflight :
        /\ PageMiddlewareRejected(call)
        /\ call.req.nav
        /\ call.routeCache.serverRoutes[call.req.path].middleware.kind
              = "list"
        /\ FirstResponse(MiddlewareOutcomes(
               call.routeCache.serverRoutes[call.req.path], call.req)) = 2
        /\ call.result.response = Reject401

\* the position of the first event `ev` in the trace, 0 when absent
Position(trace, ev) ==
    LET is == {i \in 1..Len(trace) : trace[i] = ev}
    IN  IF is = {} THEN 0 ELSE CHOOSE i \in is : \A j \in is : i <= j

\* the page tier answered with the 429 of the per-route rate limit
PageRateLimited(call) ==
    /\ call.result.tier = "page"
    /\ InTrace(call.result.trace, Ev("page", "rateLimit"))
    /\ call.req.routeDeny

\* C6: markup is fetched from, or generated into, the markup cache only
\* after the per-route middleware has run without short-circuiting; a page
\* request rejected by per-route middleware or by the per-route rate limit
\* leaves the markup cache as it was.
C6_MarkupAfterMiddleware ==
    \A call \in inflight :
        LET tr == call.result.trace
        IN  /\ InTrace(tr, Ev("page", "middleware")) =>
                  \/ ~InTrace(tr, Ev("page", "getHTML"))
                  \/ /\ ~PageMiddlewareRejected(call)
                     /\ Position(tr, Ev("page", "middleware"))
                           < Position(tr, Ev("page", "getHTML"))
            /\ (PageMiddlewareRejected(call) \/ PageRateLimited(call)) =>
                  call.result.updatedRouteCache.htmlCache
                      = call.routeCache.htmlCache

\* the route table and the markup of the struct are those of `id`
BuiltFrom(cache, id) ==
    LET fresh == configureRoutes(RoutesOf(id), cache)
    IN  /\ cache.serverRoutes = fresh.serverRoutes
        /\ cache.apiRoutes = fresh.apiRoutes
        /\ \A path \in DOMAIN cache.htmlCache :
              /\ path \in DOMAIN fresh.serverRoutes
              /\ cache.htmlCache[path]
                    = generateHTML(fresh.serverRoutes[path], path)

\* C7: a request that began under route table R1 and completes after
\* configureFromRoutes(R2) leaves the server with the route table of R2 and
\* with no markup generated under R1: the completing request does not
\* reinstall the snapshot it started with.
C7_NoStaleReinstall ==
    [][\A call \in inflight :
          (/\ call \notin inflight'
           /\ call.routeCache.serverRoutes
                 = configureRoutes(RoutesOf("R1"), routeCache).serverRoutes
           /\ configured.id = "R2") =>
              BuiltFrom(routeCache', "R2")]_vars

C9_EntriesNeverRemoved ==
    [][/\ assetCache.clientBundle # Null =>
             assetCache'.clientBundle = assetCache.clientBundle
       /\ assetCache.cssBundle # Null =>
             assetCache'.cssBundle = assetCache.cssBundle
       /\ inflight' # inflight =>
             \A path \in DOMAIN routeCache.htmlCache :
                 /\ path \in DOMAIN routeCache'.htmlCache
                 /\ routeCache'.htmlCache[path] = routeCache.htmlCache[path]
      ]_vars

----------------------------------------------------------------------------
(* Claims about the navigation engine *)

\* C1: whatever the sequence of navigate(), link clicks, back/forward and
\* server responses, the route at path P is rendered and currentPath is set
\* to P only after a request for P, issued by that same navigation, has
\* returned a 2xx response.
C1_ServerRoundTripBeforeCommit ==
    /\ \A i \in 1..Len(browser.commits) :
          LET c == browser.commits[i]
          IN  /\ c.fetched.path = c.path
              /\ c.route.path = c.path
              /\ c.fetched.response.status \in 200..299
    /\ router.currentPath =
          IF browser.commits = <<>> THEN Rel("")
          ELSE browser.commits[Len(browser.commits)].path
    /\ router.currentRoute =
          IF browser.commits = <<>> THEN Null
          ELSE <<browser.commits[Len(browser.commits)].route>>

\* two navigations to different paths were rendered, one of them with a
\* history entry
C1_Witness ==
    /\ Len(browser.commits) = 2
    /\ browser.commits[1].rendered /\ browser.commits[2].rendered
    /\ browser.commits[1].path # browser.commits[2].path
    /\ browser.commits[2].pushed
    /\ router.currentPath = browser.commits[2].path

----------------------------------------------------------------------------
(* Claims about asset failures *)

\* the compiler was called for the asset of the call and threw
CompilerThrew(call) ==
    /\ InTrace(call.result.trace, Ev("asset", "compiler"))
    /\ \/ call.req.path = StylesPath /\ ~call.req.env.cssCompile.ok
       \/ call.req.path = ClientJsPath /\ ~call.req.env.jsCompile.ok

\* the env of the request with compilers that work
Repaired(req) ==
    [req EXCEPT !.env.cssCompile = Compiled("c"),
                !.env.jsCompile = Compiled("c")]

\* C12: when the compiler throws while /styles.css or /client.js is served,
\* the dispatcher answers 500 with the fixed fallback body, the asset cache
\* struct it hands back for installation is the one the server held before
\* the request, and a later request for the asset calls the compiler again.
C12_CompilerFailure ==
    \A call \in inflight :
        CompilerThrew(call) =>
            /\ call.result.response =
                  (IF call.req.path = StylesPath
                   THEN createAssetErrorResponse(
                            "text/css", "/* CSS compilation failed */")
                   ELSE createAssetErrorResponse(
                            "application/javascript",
                            "// Client bundling error"))
            /\ call.result.response.status = 500
            /\ call.result.updatedAssetCache = assetCache
            /\ call.result.updatedRouteCache = routeCache
            /\ InTrace(routeRequest(Repaired(call.req), routeCache,
                                    call.result.updatedAssetCache,
                                    middlewareConfig).trace,
                       Ev("asset", "compiler"))

C12_Witness ==
    \E call \in inflight :
        /\ CompilerThrew(call)
        /\ call.req.path = StylesPath
        /\ call.assetCache.clientBundle # Null
        /\ call.result.response.status = 500

----------------------------------------------------------------------------
(* Claims about the route table builder *)

\* the chain a table level adds to: the parent's, then its own value if set
Chain(parent, own) == IF own # Null THEN Append(parent, own[1]) ELSE parent

PagesOf(name) ==
    {tables.state[name].segments[i].resolver.component :
        i \in {k \in 1..Len(tables.state[name].segments) :
                 tables.state[name].segments[k].resolver.type = "page"}}

\* root sets L1 and auth and declares /dashboard (page D) and the nested
\* table, which additionally sets L2 and declares users (page U)
DashboardExample ==
    /\ tables.state["root"].currentLayout = Str("L1")
    /\ tables.state["root"].currentMiddleware = Str("auth")
    /\ tables.state["root"].segments =
          <<[path |-> DashboardPath, resolver |-> Page("D", Null, Null)],
            [path |-> DashboardSlashPath, resolver |-> Nested("child")]>>
    /\ tables.state["child"].currentLayout = Str("L2")
    /\ tables.state["child"].currentMiddleware = Null
    /\ tables.state["child"].segments =
          <<[path |-> UsersPath,
             resolver |-> Page("U", Str("Users"), Null)]>>

\* C13: flattening gives every page route the layouts set on its ancestor
\* tables, outermost first, followed by the layout of its own table if set,
\* and the middleware chain built the same way; the dashboard example
\* flattens to /dashboard with [L1] and /dashboard/users with [L1, L2], both
\* with middleware auth.
C13_FlattenInheritance ==
    LET root == tables.state["root"]
        child == tables.state["child"]
        flat == getClientRoutes(tables.state)
    IN  /\ \A i \in 1..Len(flat) :
             /\ flat[i].component \in PagesOf("root") =>
                  /\ flat[i].layouts = Chain(<<>>, root.currentLayout)
                  /\ flat[i].middleware =
                        normalizeMiddleware(
                            Chain(<<>>, root.currentMiddleware))
             /\ flat[i].component \in PagesOf("child") =>
                  /\ flat[i].layouts =
                        Chain(Chain(<<>>, root.currentLayout),
                              child.currentLayout)
                  /\ flat[i].middleware =
                        normalizeMiddleware(
                            Chain(Chain(<<>>, root.currentMiddleware),
                                  child.currentMiddleware))
        /\ DashboardExample =>
             flat = <<[path |-> <<Slash, "dashboard">>, component |-> "D",
                       layouts |-> <<"L1">>,
                       metadata |-> Str(<<"Page ", Slash, "dashboard">>),
                       middleware |-> OneMw("auth"), rateLimit |-> Null],
                      [path |-> <<Slash, "dashboard", Slash, "users">>,
                       component |-> "U", layouts |-> <<"L1", "L2">>,
                       metadata |-> Str("Users"),
                       middleware |-> OneMw("auth"), rateLimit |-> Null]>>

C13_Witness == DashboardExample

RECURSIVE DeclaredChains(_, _, _, _)
\* the layout and middleware chains of the page segments of an instance
\* from its i-th segment on, in flattening order, each segment taking the
\* values that were current when it was added
DeclaredChains(name, i, parentLayouts, parentMiddleware) ==
    LET state == tables.state[name]
    IN  IF i > Len(state.segments) THEN <<>>
        ELSE
        LET layouts == Chain(parentLayouts, tables.added[name][i].layout)
            middleware ==
                Chain(parentMiddleware, tables.added[name][i].middleware)
            resolver == state.segments[i].resolver
            here ==
                IF resolver.type = "page"
                THEN <<[layouts |-> layouts,
                        middleware |-> normalizeMiddleware(middleware)]>>
                ELSE IF resolver.type = "api" THEN <<>>
                ELSE DeclaredChains(resolver.routes, 1, layouts, middleware)
        IN  here \o DeclaredChains(name, i + 1, parentLayouts,
                                   parentMiddleware)

\* C14: setLayout and setMiddleware apply to the segments added after the
\* call: every flattened page route has the chains made of the values that
\* were current, on each table of its ancestry, when its segment was added,
\* so a segment added before an inner setLayout(L2) keeps the chain [L1]
\* while a sibling added after it gets [L1, L2].
C14_AppliesToLaterSegments ==
    LET flat == getClientRoutes(tables.state)
        declared == DeclaredChains("root", 1, <<>>, <<>>)
    IN  /\ Len(flat) = Len(declared)
        /\ \A i \in 1..Len(flat) :
             /\ flat[i].layouts = declared[i].layouts
             /\ flat[i].middleware = declared[i].middleware

----------------------------------------------------------------------------
(* Claims about the navigation functions *)

\* the length of the longest common positional prefix of two lists
CommonPrefix(a, b) ==
    LET same == {n \in 0..Min(Len(a), Len(b)) : \A i \in 1..n : a[i] = b[i]}
    IN  CHOOSE n \in same : \A m \in same : m <= n

PreservedCall(currentLayouts, newLayouts) ==
    /\ fn.name = "calculatePreservedLayouts" /\ fn.done
    /\ fn.args[1] # Null
    /\ fn.args[1][1].layouts = currentLayouts
    /\ fn.args[2].layouts = newLayouts

\* C15: calculatePreservedLayouts(current, target) is the length of the
\* longest common positional prefix of the two layout lists: 0 without a
\* current route, never above the length of the shorter list, and layouts
\* shared at other positions or after the first mismatch do not count.
C15_PreservedIsCommonPrefix ==
    /\ (fn.name = "calculatePreservedLayouts" /\ fn.done) =>
          IF fn.args[1] = Null THEN fn.result = 0
          ELSE /\ fn.result = CommonPrefix(fn.args[1][1].layouts,
                                           fn.args[2].layouts)
               /\ fn.result <= Len(fn.args[1][1].layouts)
               /\ fn.result <= Len(fn.args[2].layouts)
    /\ PreservedCall(<<"L1", "L2">>, <<"L1", "L2">>) => fn.result = 2
    /\ PreservedCall(<<"L1", "L2">>, <<"L1", "L3">>) => fn.result = 1
    /\ PreservedCall(<<"L1">>, <<"L2">>) => fn.result = 0
    /\ PreservedCall(<<"L1", "L2">>, <<"L2", "L1">>) => fn.result = 0
    /\ PreservedCall(<<"L1", "L2">>, <<"L3", "L2">>) => fn.result = 0

C15_Witness ==
    /\ PreservedCall(<<"L1", "L2">>, <<"L3", "L2">>)
    /\ fn.result = 0

\* the Location is on the origin of the page: a path, or an absolute URL
\* of that origin
SameOrigin(location) ==
    location.origin = "" \/ location.origin = CurrentOrigin

\* C18: for a 3xx response with a Location, analyzeNavigationResponse
\* answers success with redirectTo = the location when the location is on
\* the same origin (a relative location included) and is no login path, and
\* failure with fallback to a full page load when it is off-origin or a
\* login path.
C18_RedirectAnalysis ==
    (/\ fn.name = "analyzeNavigationResponse" /\ fn.done
     /\ fn.args[1].status >= 300 /\ fn.args[1].status < 400
     /\ fn.args[1].location # Null) =>
        LET location == fn.args[1].location[1]
        IN  IF SameOrigin(location) /\ ~IncludesLogin(location)
            THEN /\ fn.result.success
                 /\ ~fn.result.shouldFallbackToFullPage
                 /\ fn.result.redirectTo = <<location>>
            ELSE /\ ~fn.result.success
                 /\ fn.result.shouldFallbackToFullPage

----------------------------------------------------------------------------
(* Claims about the rendered layout keys *)

\* the navigations whose element was handed to a render callback
Rendered == {i \in 1..Len(browser.commits) : browser.commits[i].element # Null}

\* the keys of the element of the i-th navigation
KeysOf(i) == browser.commits[i].element[1]

\* the rendered navigation before the j-th one (0: none)
PreviousRendered(j) ==
    IF \E i \in Rendered : i < j
    THEN CHOOSE i \in Rendered : i < j /\ \A k \in Rendered : k < j => k <= i
    ELSE 0

\* C16: across two consecutive successful navigations, every layout at an
\* index below the preserved count has in the new tree the key it had in
\* the tree rendered before, so a layout shared as a positional prefix is
\* not remounted.
C16_PreservedKeysStable ==
    \A j \in Rendered :
        PreviousRendered(j) # 0 =>
            \A n \in 1..browser.commits[j].preserved :
                /\ n <= Len(KeysOf(PreviousRendered(j)))
                /\ KeysOf(j)[n] = KeysOf(PreviousRendered(j))[n]

\* C17: in every tree built by a navigation, each layout at an index at or
\* above the preserved count has a key that no layout had in any earlier
\* tree, also when navigations complete within the same clock reading.
C17_NewKeysFresh ==
    \A j \in Rendered :
        \A n \in (browser.commits[j].preserved + 1)..Len(KeysOf(j)) :
            \A i \in Rendered :
                i < j =>
                    \A m \in 1..Len(KeysOf(i)) : KeysOf(i)[m] # KeysOf(j)[n]

----------------------------------------------------------------------------
(* Claims about redirects and failed navigations *)

\* the step ends the navigation nav by handing it to
\* processSuccessfulNavigation (its request was answered 2xx): a navigation
\* was committed, or the route was missing and the page is reloaded
Processed(nav) ==
    /\ nav \in navs /\ nav \notin navs'
    /\ \/ Len(browser'.commits) = Len(browser.commits) + 1
       \/ /\ browser'.location # browser.location
          /\ browser'.location[1].by = "notFound"

\* C19: a navigation whose request is the one re-run on the same-origin
\* Location Q of a redirect, answered 2xx while the path of Q is registered
\* in the route table, ends rendered with currentPath the path of Q and the
\* route of Q current, not in a full page load.
C19_InternalRedirectRenders ==
    [][\A nav \in navs :
          (/\ nav.path.origin = CurrentOrigin
           /\ Rel(nav.path.path) \in DOMAIN router.routes
           /\ Processed(nav)) =>
              /\ Len(browser'.commits) = Len(browser.commits) + 1
              /\ router'.currentPath.path = nav.path.path
              /\ router'.currentRoute =
                    <<router.routes[Rel(nav.path.path)]>>
              /\ browser'.location = browser.location
      ]_vars

\* the step ends the navigation nav as a failure without a redirect target:
\* its response was neither 2xx nor a 3xx with a Location
Failed(nav) ==
    /\ nav \in navs /\ nav \notin navs'
    /\ browser'.location # browser.location
    /\ browser'.location[1].by = "failure"

\* C20: when the response to a navigation to P is neither 2xx nor a 3xx
\* with a Location, nothing is rendered, currentPath, currentRoute and the
\* history are left unchanged, no event is dispatched, and the browser is
\* sent to P by a full page navigation.
C20_FailureReloadsRequestedPath ==
    [][\A nav \in navs :
          Failed(nav) =>
              /\ router' = router
              /\ browser'.commits = browser.commits
              /\ browser'.location[1].href = nav.path
      ]_vars

----------------------------------------------------------------------------
(* Claims about fallbacks, no-ops and the order of a navigation *)

\* C21: when the request of a navigation to P is answered 2xx while P has no
\* entry in the route table held at that time, the browser is sent to P by a
\* full page navigation, and nothing is rendered, pushed or dispatched and
\* currentPath and currentRoute stay as they were.
C21_MissingRouteReloads ==
    [][\A nav \in navs :
          (/\ getRoute(router, nav.path) = Null
           /\ Processed(nav)) =>
              /\ router' = router
              /\ browser'.commits = browser.commits
              /\ browser'.location =
                    <<[href |-> nav.path, by |-> "notFound"]>>
      ]_vars

\* /b was rendered and is current, /a is not in the table (never added, or
\* removed), and a navigation to /a answered 2xx reloaded the page at /a
C21_Witness ==
    /\ Len(browser.commits) = 1
    /\ browser.commits[1].path = Rel("/b")
    /\ browser.commits[1].rendered
    /\ router.currentPath = Rel("/b")
    /\ router.currentRoute = <<RouteB>>
    /\ Rel("/a") \notin DOMAIN router.routes
    /\ browser.location = <<[href |-> Rel("/a"), by |-> "notFound"]>>

\* the step ends the navigation nav in the catch block of navigateWithServer
Caught(nav) ==
    /\ nav \in navs /\ nav \notin navs'
    /\ browser'.location # browser.location
    /\ browser'.location[1].by = "catch"

\* C22: when the fetch of a navigation to P rejects, or a statement after it
\* (analysing the response, updating the state, pushing the history entry,
\* the render callback, dispatching the event) throws, the browser is sent
\* to the requested path P by a full page navigation, whatever the
\* statements before the throw have already done.
C22_ThrowReloadsRequestedPath ==
    [][\A nav \in navs :
          Caught(nav) => browser'.location[1].href = nav.path
      ]_vars

\* the event could not be dispatched for a navigation to /b that had set the
\* state, pushed the entry and rendered while /a was current: the page is
\* reloaded at /b
C22_Witness ==
    /\ Len(browser.commits) = 2
    /\ browser.commits[1].path = Rel("/a")
    /\ browser.commits[1].event
    /\ browser.commits[2].path = Rel("/b")
    /\ browser.commits[2].pushed
    /\ browser.commits[2].rendered
    /\ ~browser.commits[2].event
    /\ router.currentPath = Rel("/b")
    /\ browser.location = <<[href |-> Rel("/b"), by |-> "catch"]>>

\* C23: a call of navigateWithServer whose target path is the current path
\* issues no request, pushes no history entry, does not invoke the render
\* callback, dispatches no event and leaves the router state as it was.
C23_SamePathNoOp ==
    [][(fn' # fn /\ fn'.done /\ fn'.result = <<TRUE>>) =>
          UNCHANGED <<router, navs, browser>>
      ]_vars

\* a page was rendered on popstate, and a later click on a link to the same
\* path did nothing
C23_Witness ==
    /\ fn.done /\ fn.name = "click" /\ fn.result = <<TRUE>>
    /\ Len(browser.commits) = 1
    /\ browser.commits[1].rendered
    /\ ~browser.commits[1].pushed
    /\ router.currentPath = browser.commits[1].path
    /\ navs = {}
    /\ browser.location = Null

\* C24: the response of every navigation in flight is processed when it
\* arrives, whatever other navigations are in flight or were started before
\* or after it: answered 2xx for a registered path it is rendered and its
\* path and route become current, and the others stay in flight; so of two
\* overlapping navigations the one answered last is the one finally shown.
C24_LastResponseWins ==
    [][\A nav \in navs :
          (/\ getRoute(router, nav.path) # Null
           /\ router.renderCallback = "renders"
           /\ Processed(nav)) =>
              /\ navs' = navs \ {nav}
              /\ Len(browser'.commits) = Len(browser.commits) + 1
              /\ LET c == browser'.commits[Len(browser'.commits)]
                 IN  /\ c.path = nav.path
                     /\ c.route = router.routes[nav.path]
                     /\ c.rendered /\ c.event
              /\ router'.currentPath = nav.path
              /\ router'.currentRoute = <<router.routes[nav.path]>>
      ]_vars

\* navigate("/a") then navigate("/b") were called, /b was answered first and
\* /a last: both were rendered and /a is the current route
C24_Witness ==
    /\ fn.args = <<Rel("/a"), Rel("/b")>>
    /\ Len(browser.commits) = 2
    /\ browser.commits[1].path = Rel("/b")
    /\ browser.commits[2].path = Rel("/a")
    /\ browser.commits[1].rendered /\ browser.commits[2].rendered
    /\ router.currentPath = Rel("/a")
    /\ router.currentRoute = <<browser.commits[2].route>>
    /\ navs = {}

\* the step ends the navigation nav, answered 2xx for a registered path
\* while a render callback is set, and its last statement has run
Succeeded(nav) ==
    /\ getRoute(router, nav.path) # Null
    /\ router.renderCallback = "renders"
    /\ Processed(nav)

\* a successful navigation ran the state update, the history push when its
\* pushState flag is set, the render callback and the event, once each and
\* in this order
StepsInOrder ==
    \A nav \in navs :
        Succeeded(nav) =>
            LET c == browser'.commits[Len(browser'.commits)]
            IN  /\ c.steps = <<"state">>
                             \o (IF nav.pushState THEN <<"push">> ELSE <<>>)
                             \o <<"render", "event">>
                /\ c.pushed = nav.pushState
                /\ c.rendered /\ c.event

\* the step is a call made by a trigger that starts a navigation
Triggered == fn' # fn /\ fn'.done /\ navs' # navs

\* C25 as amended: a successful navigation performs the state update, the
\* history push, the render callback and the event in this order, each once;
\* the entry is pushed exactly when the call's pushState argument is true:
\* always for a link click and for navigate(path), never for the initial
\* load and for back/forward, and not for navigate(path, false).
C25_OrderedStepsPushByArgument ==
    [][/\ StepsInOrder
       /\ Triggered =>
             /\ \A nav \in navs' \ navs : nav.pushState = fn'.args[1]
             /\ fn'.name = "click" => fn'.args[1]
             /\ fn'.name = "popstate" => ~fn'.args[1]
      ]_vars

\* navigate("/b", false) was called while /a, rendered on a link click, was
\* current; /b was rendered without a history entry
C25_Witness ==
    /\ fn.name = "navigate" /\ fn.args = <<FALSE>> /\ fn.result = <<FALSE>>
    /\ Len(browser.commits) = 2
    /\ browser.commits[1].steps = <<"state", "push", "render", "event">>
    /\ browser.commits[2].steps = <<"state", "render", "event">>
    /\ ~browser.commits[2].pushed
    /\ router.currentPath = browser.commits[2].path
    /\ navs = {}
    /\ browser.location = Null

\* C25: a successful navigation performs the state update, the history
\* push, the render callback and the event in this order, each once, and the
\* entry is pushed if and only if the trigger was navigate() or a link
\* click, never for the initial load or back/forward.
C25_OrderedStepsPushByTrigger ==
    [][/\ StepsInOrder
       /\ Triggered =>
             \A nav \in navs' \ navs :
                 nav.pushState = (fn'.name \in {"navigate", "click"})
      ]_vars

----------------------------------------------------------------------------
(* Claims about the end of a navigation *)

\* C26: every navigation that is started (its target is not the current
\* path) eventually ends, rendered or in a full page load, when every
\* request is eventually answered or fails, also when it passes through
\* internal redirects.
C26_NavigationEnds ==
    (navs # {}) ~>
        (/\ navs = {}
         /\ browser.commits # <<>> \/ browser.location # Null)

----------------------------------------------------------------------------
(* Claims about API routes and unmatched requests *)

\* q = p, or q starts with p followed by "/"
ClaimedMatch(q, p) ==
    \/ q = p
    \/ /\ Len(q) > Len(p)
       /\ SubSeq(q, 1, Len(p)) = p
       /\ q[Len(p) + 1] = "/"

\* the API routes of the call's table whose path matches the request, by
\* their place in the order of registration
MatchingApis(call) ==
    {i \in 1..Len(call.routeCache.apiRoutes) :
        ClaimedMatch(call.req.path, call.routeCache.apiRoutes[i].path)}

\* the matching routes that answer: the middleware or the handler returns
\* a Response
AnsweringApis(call) ==
    {i \in MatchingApis(call) :
        LET apiRoute == call.routeCache.apiRoutes[i]
        IN  \/ FirstResponse(MiddlewareOutcomes(apiRoute, call.req)) # 0
            \/ HandlerResult(apiRoute.handler, call.req).kind = "resp"}

Least(S) == CHOOSE i \in S : \A j \in S : i <= j

\* how many API handlers the request of the call has invoked
HandlersInvoked(call) ==
    Cardinality({k \in 1..Len(call.result.trace) :
                    call.result.trace[k] = Ev("api", "handler")})

\* the request of the call went through the scan of the API routes
ApiScanned(call) ==
    /\ call.result.tier \in {"api", "page"}
    /\ ~(call.result.tier = "api" /\ call.result.response = RateLimited)

\* C27: an API route with path p matches the request path q exactly when
\* q = p or q starts with p + "/"; the matching routes are tried in the
\* order of registration, a handler that returns no Response lets the scan
\* go on to the next matching route, the first Response is the answer, and
\* the page tier answers when no route gives one.
C27_ApiScanOrder ==
    \A call \in inflight :
        ApiScanned(call) =>
            LET apis == call.routeCache.apiRoutes
                M == MatchingApis(call)
                A == AnsweringApis(call)
            IN  IF A = {}
                THEN /\ call.result.tier = "page"
                     /\ HandlersInvoked(call) = Cardinality(M)
                ELSE LET k == Least(A)
                         outs == MiddlewareOutcomes(apis[k], call.req)
                         r == FirstResponse(outs)
                     IN  /\ call.result.tier = "api"
                         /\ call.result.response =
                              IF r # 0 THEN outs[r].resp
                              ELSE HandlerResult(apis[k].handler,
                                                 call.req).resp
                         /\ HandlersInvoked(call) =
                              Cardinality({i \in M : i < k})
                              + (IF r # 0 THEN 0 ELSE 1)

\* /x/1 matched the routes /x, /x/1 and /x in this order; the first handler
\* returned no Response and the second one answered
C27_Witness ==
    \E call \in inflight :
        /\ call.req.path = PathX1
        /\ MatchingApis(call) = {1, 2, 3}
        /\ call.result.tier = "api"
        /\ call.result.response.status = 200
        /\ call.result.response.body = <<"json1", PathX1>>
        /\ HandlersInvoked(call) = 2

\* the matching routes whose handler the scan invokes: those up to the
\* first one that answers, that one included when its handler is reached
InvokedApis(call) ==
    {i \in MatchingApis(call) :
        /\ \A j \in AnsweringApis(call) : i <= j
        /\ FirstResponse(MiddlewareOutcomes(call.routeCache.apiRoutes[i],
                                            call.req)) = 0}

\* the positions of the handler events in the trace of the call
HandlerPositions(call) ==
    {k \in 1..Len(call.result.trace) :
        call.result.trace[k] = Ev("api", "handler")}

\* the position in the trace of the handler event of the invoked route i
HandlerPosition(call, i) ==
    CHOOSE k \in HandlerPositions(call) :
        Cardinality({h \in HandlerPositions(call) : h < k})
            = Cardinality({j \in InvokedApis(call) : j < i})

\* C28: with rate limiting enabled, every API route whose handler is
\* invoked for a request had its own rate-limit check (when it has one) and
\* its own middleware evaluated for that request before the handler ran,
\* also when the scan reached it after an earlier handler returned no
\* Response.
C28_OwnChecksBeforeHandler ==
    \A call \in inflight :
        (middlewareConfig.enableRateLimit /\ ApiScanned(call)) =>
            \A i \in InvokedApis(call) :
                LET apis == call.routeCache.apiRoutes
                    tr == call.result.trace
                    first == apis[findApiRoute(call.routeCache,
                                               call.req.path)]
                    h == HandlerPosition(call, i)
                IN  /\ Cardinality(HandlerPositions(call))
                         = Cardinality(InvokedApis(call))
                    /\ \A m \in 1..Len(apis[i].middleware.fns) :
                          /\ h - m >= 1
                          /\ tr[h - m] = Ev("api", "middleware")
                    /\ apis[i].rateLimit =>
                          /\ first.rateLimit /\ first.path = apis[i].path
                          /\ ~call.req.routeDeny
                          /\ \E k \in 1..(h - 1) :
                                tr[k] = Ev("api", "rateLimit")

\* C29: a request that the global middleware lets through, that is for no
\* asset endpoint, that gets no Response from a matching API route and whose
\* exact path is not in the page table is answered 404, and the route cache
\* and the asset cache are returned as they were handed in.
C29_UnmatchedIs404 ==
    \A call \in inflight :
        (/\ FirstProducingTier(call) = "page"
         /\ call.req.path \notin DOMAIN call.routeCache.serverRoutes) =>
            /\ call.result.response.status = 404
            /\ call.result.updatedRouteCache = call.routeCache
            /\ call.result.updatedAssetCache = call.assetCache

\* /x matched an API route whose handler returned no Response and is not a
\* page, while pages had been served and cached: 404
C29_Witness ==
    \E call \in inflight :
        /\ call.req.path = PathX
        /\ MatchingApis(call) # {}
        /\ HandlersInvoked(call) = 1
        /\ call.routeCache.htmlCache # EmptyMap
        /\ call.result.response.status = 404
        /\ call.result.tier = "page"

----------------------------------------------------------------------------
(* Claims about response headers *)

ProtectiveHeaders ==
    {"X-Frame-Options", "X-Content-Type-Options", "Referrer-Policy"}

\* C30: every response that handleRequest returns, whichever tier produced
\* it, carries X-Frame-Options, X-Content-Type-Options and Referrer-Policy,
\* and the headers the routed response already had are kept.
C30_ProtectiveHeaders ==
    \A call \in inflight :
        /\ ProtectiveHeaders \subseteq SecuredResponse(call).hdrs
        /\ call.result.response.hdrs \subseteq SecuredResponse(call).hdrs
        /\ ProtectiveHeaders \subseteq PlainResponse(call).hdrs

----------------------------------------------------------------------------
(* Claims about the flattened tables *)

RootContext == RouteContext(<<>>, <<>>, <<>>)

\* what flattenRoutes returns for the root table where window is defined
ClientContextFlatten ==
    flattenRoutes(tables.state, "root", RootContext,
                  isServerEnvironment(Str("window")))

\* the instance has an API segment, and the root table nests it
NestedApiSegment(name) ==
    /\ \E i \in 1..Len(tables.state[name].segments) :
          tables.state[name].segments[i].resolver.type = "api"
    /\ \E i \in 1..Len(tables.state["root"].segments) :
          tables.state["root"].segments[i].resolver = Nested(name)

\* C31: in a client execution context flattening emits no API route, also
\* for API segments of nested tables: the API route list is empty and no
\* route of the client-facing table carries an API handler.
C31_NoApiRouteInClient ==
    /\ ClientContextFlatten.apiRoutes = <<>>
    /\ \A i \in 1..Len(ClientContextFlatten.clientRoutes) :
          /\ "handler" \notin DOMAIN ClientContextFlatten.clientRoutes[i]
          /\ ClientContextFlatten.clientRoutes[i].component # "h"

C31_Witness ==
    /\ NestedApiSegment("child")
    /\ getApiRoutes(tables.state) # <<>>
    /\ ClientContextFlatten.apiRoutes = <<>>

\* the server's struct for the declared tables, and the client's router
\* state for what getClientRoutes returns for them
ServerTable == configureRoutes(RoutesInstance(tables.state), createRouteCache)
ClientTable == updateRoutes(createRouterState, getClientRoutes(tables.state))

\* the nested table declares two pages, users and /users, that flatten to
\* the same path
UsersTwice ==
    /\ \E i \in 1..Len(tables.state["child"].segments) :
          tables.state["child"].segments[i].resolver =
              Page("U", Str("Users"), Null)
    /\ \E i \in 1..Len(tables.state["child"].segments) :
          tables.state["child"].segments[i].resolver =
              Page("V", Null, Str("limit"))
    /\ \E i \in 1..Len(tables.state["root"].segments) :
          tables.state["root"].segments[i].resolver = Nested("child")

\* C32: the server page table built by configureRoutes and the client
\* table built from getClientRoutes have the same page paths, and for each
\* path the server route is the client route without its component and
\* layouts: same path, metadata, middleware and rateLimit.
C32_SameTableOnBothSides ==
    /\ DOMAIN ServerTable.serverRoutes = DOMAIN ClientTable.routes
    /\ \A p \in DOMAIN ClientTable.routes :
          LET s == ServerTable.serverRoutes[p]
              c == ClientTable.routes[p]
          IN  /\ DOMAIN s = {"path", "metadata", "middleware", "rateLimit"}
              /\ s.path = c.path
              /\ s.metadata = c.metadata
              /\ s.middleware = c.middleware
              /\ s.rateLimit = c.rateLimit

C32_Witness ==
    /\ UsersTwice
    /\ Cardinality(DOMAIN ClientTable.routes) = 1
    /\ Len(getClientRoutes(tables.state)) = 2
    /\ \E p \in DOMAIN ServerTable.serverRoutes :
          ServerTable.serverRoutes[p].rateLimit = Str("limit")

\* C33: path keys are unique in each table used for dispatch: no two routes
\* of the page table and no two routes of the API table have the same
\* path, so of two segments that flatten to one absolute path exactly one
\* route is retained.
C33_UniquePathKeys ==
    /\ \A p, q \in DOMAIN ServerTable.serverRoutes :
          ServerTable.serverRoutes[p].path = ServerTable.serverRoutes[q].path
              => p = q
    /\ \A p \in DOMAIN ServerTable.serverRoutes :
          ServerTable.serverRoutes[p].path = p
    /\ \A i, j \in 1..Len(ServerTable.apiRoutes) :
          ServerTable.apiRoutes[i].path = ServerTable.apiRoutes[j].path
              => i = j

\* the middleware functions set on the root table and, for a route of the
\* nested table, on the nested table after them
AppliedMiddleware(nested) ==
    LET outer == IF tables.state["root"].currentMiddleware = Null THEN <<>>
                 ELSE <<tables.state["root"].currentMiddleware[1]>>
        inner == IF tables.state["child"].currentMiddleware = Null THEN <<>>
                 ELSE <<tables.state["child"].currentMiddleware[1]>>
    IN  IF nested THEN outer \o inner ELSE outer

\* the middleware field stands for the applied functions: absent for
\* none, the function for one, the list for more
Represents(middleware, applied) ==
    /\ Len(applied) = 0 => middleware.kind = "absent"
    /\ Len(applied) = 1 =>
          middleware.kind = "single" /\ middleware.fns = applied
    /\ Len(applied) > 1 =>
          middleware.kind = "list" /\ middleware.fns = applied
    /\ middleware.kind = "absent" => middleware.fns = <<>>

FlatPages == getClientRoutes(tables.state)
FlatApis == getApiRoutes(tables.state)

\* C34: in every flattened page or API route the middleware field is
\* absent when no middleware applies along the ancestor chain, the bare
\* function when exactly one applies, and a list in outer-to-inner order
\* only when more than one applies.
C34_MiddlewareRepresentation ==
    /\ \A i \in 1..Len(FlatPages) :
          Represents(FlatPages[i].middleware,
                     AppliedMiddleware(FlatPages[i].component # "D"))
    /\ \A i \in 1..Len(FlatApis) :
          Represents(FlatApis[i].middleware, AppliedMiddleware(TRUE))

C34_Witness ==
    /\ \E i \in 1..Len(FlatPages) : FlatPages[i].middleware = OneMw("auth")
    /\ \E i \in 1..Len(FlatApis) :
          FlatApis[i].middleware = ListMw(<<"auth", "log">>)

----------------------------------------------------------------------------
(* Claims about joinPaths *)

RECURSIVE WithoutTrailingSlashes(_)
WithoutTrailingSlashes(s) ==
    IF s # <<>> /\ s[Len(s)] = Slash
    THEN WithoutTrailingSlashes(SubSeq(s, 1, Len(s) - 1)) ELSE s

RECURSIVE WithoutLeadingSlashes(_)
WithoutLeadingSlashes(s) ==
    IF s # <<>> /\ s[1] = Slash THEN WithoutLeadingSlashes(Tail(s)) ELSE s

JoinPathsCall(base, path) ==
    fn.name = "joinPaths" /\ fn.done /\ fn.args = <<base, path>>

\* C35: joinPaths(base, seg) is seg when base is empty, base when seg is
\* empty, and otherwise the two parts with exactly one "/" between them,
\* for all strings; joinPaths("/base/", "/seg") = "/base/seg",
\* joinPaths("", "x") = "x" and joinPaths("/base", "") = "/base".
C35_JoinPathsOneSlash ==
    /\ (fn.name = "joinPaths" /\ fn.done) =>
          IF fn.args[1] = <<>> THEN fn.result = fn.args[2]
          ELSE IF fn.args[2] = <<>> THEN fn.result = fn.args[1]
          ELSE fn.result = WithoutTrailingSlashes(fn.args[1]) \o <<Slash>>
                               \o WithoutLeadingSlashes(fn.args[2])
    /\ JoinPathsCall(<<Slash, "base", Slash>>, <<Slash, "seg">>) =>
          fn.result = <<Slash, "base", Slash, "seg">>
    /\ JoinPathsCall(<<>>, <<"seg">>) => fn.result = <<"seg">>
    /\ JoinPathsCall(<<Slash, "base">>, <<>>) => fn.result = <<Slash, "base">>

----------------------------------------------------------------------------
(* Claims about the route accessors *)

AccessorCall(accessor, tag) ==
    fn.name = accessor /\ fn.done /\ fn.args[1].resolver.type = tag

\* C36: extracting a route with the accessor of the wrong descriptor tag
\* fails with a descriptive error and produces no route: createClientRoute
\* on an Api or Nested descriptor throws 'Expected page segment, got <tag>'
\* and createApiRoute on a Page or Nested descriptor throws 'Expected api
\* segment, got <tag>'.
C36_WrongAccessorThrows ==
    /\ \A tag \in {"api", "routes"} :
          AccessorCall("createClientRoute", tag) =>
             /\ fn.result = [thrown |-> TRUE,
                             message |-> <<"Expected ", "page",
                                           " segment, got ", tag>>]
             /\ "path" \notin DOMAIN fn.result
    /\ \A tag \in {"page", "routes"} :
          AccessorCall("createApiRoute", tag) =>
             /\ fn.result = [thrown |-> TRUE,
                             message |-> <<"Expected ", "api",
                                           " segment, got ", tag>>]
             /\ "path" \notin DOMAIN fn.result
    /\ (AccessorCall("createClientRoute", "page")
        \/ AccessorCall("createApiRoute", "api")) =>
          "thrown" \notin DOMAIN fn.result

C36_Witness ==
    /\ AccessorCall("createClientRoute", "routes")
    /\ fn.result.thrown

----------------------------------------------------------------------------
(* Claims about a missing compiler *)

\* getCSSBundle has been called with nothing cached, no prebuilt file and
\* no cssCompiler in the configuration
NoCompilerCall ==
    /\ am.call.key = "cssBundle"
    /\ ~Truthy(am.call.before.cssBundle)
    /\ ~Truthy(am.env.prebuiltCss)
    /\ ~am.env.hasCss

\* C37: a missing compiler is surfaced: resolving the style bundle with
\* nothing cached, no prebuilt artifact and no compiler configured fails
\* with the error 'No CSS compiler provided', returns no bundle and makes no
\* cache entry.
C37_MissingCompilerSurfaced ==
    NoCompilerCall =>
        /\ am.call.res.threw
        /\ am.call.res.error = "No CSS compiler provided to asset manager"
        /\ am.call.res.bundle = Null
        /\ am.call.res.updatedCache = am.call.before
        /\ am.cache = am.call.before
        /\ "compiler" \notin {am.call.res.trace[i] :
                                 i \in 1..Len(am.call.res.trace)}

C37_Witness ==
    /\ NoCompilerCall
    /\ am.env.prebuiltCss = Null
    /\ am.call.before.cssBundle = Null
    /\ am.prev.key = "clientBundle"
    /\ am.call.res.threw

----------------------------------------------------------------------------
(* Claims about modifiers on API routes *)

\* C38: when the middleware of a matched API route returns a Modifier and
\* the route's handler then returns a Response, the response produced for
\* the request is that modifier applied to the handler's response, as for
\* page routes.
C38_ApiModifierApplied ==
    \A call \in inflight :
        (ApiScanned(call) /\ AnsweringApis(call) # {}) =>
            LET apiRoute == call.routeCache.apiRoutes[Least(AnsweringApis(call))]
                outs == MiddlewareOutcomes(apiRoute, call.req)
                handlerResult == HandlerResult(apiRoute.handler, call.req)
            IN  (/\ apiRoute.middleware.kind = "single"
                 /\ IsFn(outs[1])
                 /\ handlerResult.kind = "resp") =>
                    call.result.response = ApplyFn(outs[1], handlerResult.resp)

----------------------------------------------------------------------------
(* Claims about the request size limit *)

\* the request declares a Content-Length above config.maxRequestSize and
\* the global rate limiter, which comes first, lets it through
Oversized(call) ==
    /\ call.req.contentLength # NoContentLength
    /\ call.req.contentLength > middlewareConfig.maxRequestSize
    /\ ~call.req.globalDeny

\* C39: a request whose declared Content-Length exceeds maxRequestSize is
\* short-circuited by the global middleware with a 413 response, before
\* any asset, API or page handling and with both caches unchanged, for
\* every value of enableRateLimit.
C39_OversizedIs413 ==
    \A call \in inflight :
        Oversized(call) =>
            /\ call.result.response.status = 413
            /\ call.result.response = PayloadTooLarge
            /\ call.result.tier = "global"
            /\ \A i \in 1..Len(call.result.trace) :
                  call.result.trace[i].tier = "global"
            /\ call.result.updatedAssetCache = call.assetCache
            /\ call.result.updatedRouteCache = call.routeCache

----------------------------------------------------------------------------
(* Claims about the current route *)

\* the step changes currentPath or currentRoute
CurrentMoved ==
    \/ router'.currentPath # router.currentPath
    \/ router'.currentRoute # router.currentRoute

\* after the step currentRoute is null exactly when currentPath is the
\* initial "", and otherwise it is a route of that path
CurrentConsistent ==
    /\ (router'.currentRoute = Null) <=> (router'.currentPath = Rel(""))
    /\ router'.currentRoute # Null =>
          router'.currentRoute[1].path = router'.currentPath

\* the step is the commit of a navigation: currentPath and currentRoute
\* become the path of the navigation and the route the table held for it,
\* and the table and the render callback stay as they were
CommitsNavigation ==
    /\ router'.currentPath \in DOMAIN router.routes
    /\ router'.currentRoute = <<router.routes[router'.currentPath]>>
    /\ router'.routes = router.routes
    /\ router'.renderCallback = router.renderCallback
    /\ Len(browser'.commits) = Len(browser.commits) + 1
    /\ browser'.commits[Len(browser'.commits)].path = router'.currentPath
    /\ browser'.commits[Len(browser'.commits)].route = router'.currentRoute[1]

\* C40 as amended: currentRoute is null exactly when currentPath is the
\* empty initial value, otherwise currentRoute.path = currentPath and
\* currentRoute is the route that the table held for that path when the
\* navigation committed; addRoute, removeRoute, configureRoutes,
\* setRenderCallback and every navigation that fails or falls back before
\* its commit leave both unchanged, and the only full page navigation that
\* comes with a change of them is the one of the catch block, after a step
\* that follows the commit has thrown.
C40_CurrentRouteOfLastCommit ==
    [][/\ CurrentConsistent
       /\ CurrentMoved =>
             /\ CommitsNavigation
             /\ browser'.location # browser.location =>
                   /\ browser'.location[1].by = "catch"
                   /\ browser'.location[1].href = router'.currentPath
      ]_vars

\* the render callback threw after /a or /b was committed, the catch block
\* sent the browser there, and the route was removed from the table since
C40_Witness ==
    /\ browser.commits # <<>>
    /\ browser.location # Null
    /\ browser.location[1].by = "catch"
    /\ browser.location[1].href = router.currentPath
    /\ router.currentRoute # Null
    /\ router.currentRoute[1] = browser.commits[Len(browser.commits)].route
    /\ router.currentPath \notin DOMAIN router.routes

\* C40: currentRoute is null exactly when currentPath is the empty initial
\* value, otherwise currentRoute.path = currentPath and currentRoute is the
\* route that the table held for that path when the navigation committed;
\* addRoute, removeRoute, configureRoutes, setRenderCallback and every
\* failed or fallen-back navigation leave both unchanged.
C40_CurrentRouteUnchangedByFallback ==
    [][/\ CurrentConsistent
       /\ CurrentMoved =>
             /\ CommitsNavigation
             /\ browser'.location = browser.location
      ]_vars

====
